---- MODULE Spec2Model ----
(***************************************************************************)
(* A model of jpp_core, the RFC 9535 JSONPath engine: the lexer, the       *)
(* parser, the evaluator and the thread-local regex cache.                 *)
(*                                                                         *)
(* Conventions.                                                            *)
(*  - A string is a sequence of characters, each a one-character TLA+      *)
(*    string: "ab" is <<"a", "b">>.                                        *)
(*  - A JSON value (serde_json::Value) is a record tagged by t.            *)
(*  - A node reference (&'a Value) is the path of the node inside the      *)
(*    root document: the sequence of child positions from the root.        *)
(*    Positions are 1-based here; Rust index i is position i + 1.          *)
(*  - Operators that can reach get_or_compile_regex take the cache and     *)
(*    return [r |-> result, c |-> cache afterwards].                       *)
(*  - A number is the exact decimal n * 10^e with e <= 0, normalised so    *)
(*    that n is not a multiple of 10 when e < 0; an integer has e = 0.     *)
(*    The rounding of f64 and the difference between serde_json's integer  *)
(*    and float representations are outside the model.                     *)
(*  - A Result is a record with ok; an Err carries message and position.   *)
(*                                                                         *)
(* Specifications.                                                         *)
(*  - Spec: evaluate, on a parsed JsonPath and a document.                 *)
(*  - SpecCompare: compare_values, on a pair of operands.                  *)
(*  - SpecParse: Parser::parse, on a query string.                         *)
(*  - SpecQuery: query, on a query string and a document.                  *)
(*  - SpecThread: evaluate after evaluate on one thread, the regex cache   *)
(*    carried from each call to the next.                                  *)
(*  - SpecSlice: evaluate_slice, on an array and a slice.                  *)
(*  - SpecDescend: the loop of collect_descendants, step by step, with the *)
(*    fairness of a loop that keeps running.                               *)
(*  - SpecCopies: evaluate beside evaluate_path_segments, the copy of the  *)
(*    segment evaluation that filters use.                                 *)
(*  - SpecLex: Lexer::tokenize, on a query string.                         *)
(*  - SpecCache: get_or_compile_regex, call after call on one thread.      *)
(*  - SpecTransform: transform_pattern_for_iregexp, on a pattern.          *)
(*  - SpecValue: query, on filters that compare value(q).                  *)
(*  - SpecSlice64: evaluate_slice with i64 in full width, in a build with  *)
(*    overflow checks and in a build without.                              *)
(***************************************************************************)
EXTENDS Integers, Sequences, FiniteSets, TLC

VARIABLES
    doc,      \* the JSON document passed to evaluate or query (root)
    path,     \* the parsed JsonPath last evaluated
    nodes,    \* the node list evaluate returned
    cache,    \* REGEX_CACHE of the thread
    source,   \* the query string passed to parse or query
    outcome,  \* what parse, query, tokenize or a function of the cache returned
    lhs,      \* the left operand passed to compare_values
    rhs,      \* the right operand passed to compare_values
    verdicts, \* what compare_values returned, per operator asked so far
    work,     \* the work stack of collect_descendants, the top last
    in_path,  \* the node list the filter-path copy of the evaluation returned
    pc        \* "idle" before the first call, then the name of the last call

vars == <<doc, path, nodes, cache, source, outcome, lhs, rhs, verdicts, work, in_path, pc>>

-----------------------------------------------------------------------------
(* serde_json::Value *)

Null == [t |-> "null"]
Bool(x) == [t |-> "bool", b |-> x]
Num(x) == [t |-> "num", n |-> x, e |-> 0]
Str(x) == [t |-> "str", s |-> x]
Arr(x) == [t |-> "arr", a |-> x]
Obj(x) == [t |-> "obj", o |-> x]
KV(key, val) == [k |-> key, v |-> val]

\* The child values of a value, in document order (array elements left to
\* right, object values in insertion order); scalars have none.
Children(v) ==
    CASE v.t = "arr" -> v.a
      [] v.t = "obj" -> [i \in 1..Len(v.o) |-> v.o[i].v]
      [] OTHER -> <<>>

\* Dereference a node reference.
RECURSIVE ValueAt(_, _)
ValueAt(root, p) ==
    IF p = <<>> THEN root ELSE ValueAt(Children(root)[Head(p)], Tail(p))

\* Map::get(name): the position of the member with that key, 0 when absent.
MapGet(o, name) ==
    IF \E i \in 1..Len(o) : o[i].k = name
    THEN CHOOSE i \in 1..Len(o) : o[i].k = name
    ELSE 0

\* Value == Value (serde_json PartialEq): structural, objects compared as maps.
RECURSIVE JsonEq(_, _)
JsonEq(l, r) ==
    CASE l.t # r.t -> FALSE
      [] l.t = "null" -> TRUE
      [] l.t = "bool" -> l.b = r.b
      [] l.t = "num" -> l.n = r.n /\ l.e = r.e
      [] l.t = "str" -> l.s = r.s
      [] l.t = "arr" -> /\ Len(l.a) = Len(r.a)
                        /\ \A i \in 1..Len(l.a) : JsonEq(l.a[i], r.a[i])
      [] OTHER -> /\ Len(l.o) = Len(r.o)
                  /\ \A i \in 1..Len(l.o) :
                        /\ MapGet(r.o, l.o[i].k) # 0
                        /\ JsonEq(l.o[i].v, r.o[MapGet(r.o, l.o[i].k)].v)

Reverse(s) == [i \in 1..Len(s) |-> s[Len(s) + 1 - i]]

RECURSIVE Pow10(_)
Pow10(k) == IF k <= 0 THEN 1 ELSE 10 * Pow10(k - 1)

\* l < r for two numbers (f64 `<`)
NumLess(l, r) ==
    IF l.e <= r.e
    THEN l.n < r.n * Pow10(r.e - l.e)
    ELSE l.n * Pow10(l.e - r.e) < r.n

\* `let x = value; body`: the value is computed once, before the body runs
\* (the comparison is what computes it), and the body uses it.
With(value, Body(_)) == IF value = value THEN Body(value) ELSE Body(value)

\* Lexicographic order of strings by character code (String's Ord).
CharCode(ch) ==
    CASE ch = "a" -> 97 [] ch = "b" -> 98 [] ch = "c" -> 99
      [] ch = "x" -> 120 [] ch = "(" -> 40 [] ch = "." -> 46
      [] OTHER -> 0

RECURSIVE StrLess(_, _)
StrLess(l, r) ==
    IF r = <<>> THEN FALSE
    ELSE IF l = <<>> THEN TRUE
    ELSE IF CharCode(Head(l)) # CharCode(Head(r))
         THEN CharCode(Head(l)) < CharCode(Head(r))
         ELSE StrLess(Tail(l), Tail(r))

-----------------------------------------------------------------------------
(* ast.rs *)

Child(selectors) == [kind |-> "Child", selectors |-> selectors]
Descendant(selectors) == [kind |-> "Descendant", selectors |-> selectors]

Name(s) == [kind |-> "Name", name |-> s]
Index(i) == [kind |-> "Index", idx |-> i]
Wildcard == [kind |-> "Wildcard"]
None == [some |-> FALSE, val |-> 0]
Some(x) == [some |-> TRUE, val |-> x]
Slice(start, end, step) ==
    [kind |-> "Slice", start |-> start, end |-> end, step |-> step]
Filter(e) == [kind |-> "Filter", expr |-> e]

CurrentNode == [kind |-> "CurrentNode"]
RootNode == [kind |-> "RootNode"]
Path(start, segments) == [kind |-> "Path", start |-> start, segments |-> segments]
Literal(v) == [kind |-> "Literal", lit |-> v]
Comparison(l, o, r) == [kind |-> "Comparison", left |-> l, op |-> o, right |-> r]
Logical(l, o, r) == [kind |-> "Logical", left |-> l, op |-> o, right |-> r]
Not(e) == [kind |-> "Not", inner |-> e]
FunctionCall(f, args) == [kind |-> "FunctionCall", name |-> f, args |-> args]

CompOp == {"Eq", "Ne", "Lt", "Gt", "Le", "Ge"}

JsonPath(segments) == [segments |-> segments]

\* The keywords and the function names, as strings
Chars_true == <<"t", "r", "u", "e">>
Chars_false == <<"f", "a", "l", "s", "e">>
Chars_null == <<"n", "u", "l", "l">>
Chars_count == <<"c", "o", "u", "n", "t">>
Chars_length == <<"l", "e", "n", "g", "t", "h">>
Chars_value == <<"v", "a", "l", "u", "e">>
Chars_match == <<"m", "a", "t", "c", "h">>
Chars_search == <<"s", "e", "a", "r", "c", "h">>

-----------------------------------------------------------------------------
(* The regex crate, as far as fn_match and fn_search use it: Regex::new and *)
(* Regex::is_match, for patterns that are a concatenation of literal       *)
(* characters, escaped characters, `.` and the class [^\r\n], with or      *)
(* without the ^(?: )$ wrapper fn_match adds. Any other pattern (an        *)
(* unbalanced parenthesis or bracket) does not compile.                    *)

LF == "\n"
CR == "\r"
BS == "\\"

AnchorOpen == <<"^", "(", "?", ":">>
AnchorClose == <<")", "$">>
NotCrLfClass == <<"[", "^", BS, "r", BS, "n", "]">>

IsPrefix(p, s) == Len(p) <= Len(s) /\ SubSeq(s, 1, Len(p)) = p

PatternLetters == {"a", "b", "c", "x"}

\* The atoms of a pattern body; <<[cls |-> "bad"]>> marks a syntax error.
RECURSIVE RegexAtoms(_)
RegexAtoms(p) ==
    IF p = <<>> THEN <<>>
    ELSE IF IsPrefix(NotCrLfClass, p)
         THEN <<[cls |-> "notcrlf", ch |-> ""]>>
                  \o RegexAtoms(SubSeq(p, Len(NotCrLfClass) + 1, Len(p)))
    ELSE IF Head(p) = BS /\ Len(p) >= 2
         THEN <<[cls |-> "lit", ch |-> p[2]]>> \o RegexAtoms(SubSeq(p, 3, Len(p)))
    ELSE IF Head(p) = "."
         THEN <<[cls |-> "dot", ch |-> ""]>> \o RegexAtoms(Tail(p))
    ELSE IF Head(p) \in PatternLetters
         THEN <<[cls |-> "lit", ch |-> Head(p)]>> \o RegexAtoms(Tail(p))
    ELSE <<[cls |-> "bad", ch |-> ""]>>

\* Regex::new(pattern): Ok(regex) or Err.
RegexNew(pattern) ==
    LET anchored == /\ Len(pattern) >= Len(AnchorOpen) + Len(AnchorClose)
                    /\ IsPrefix(AnchorOpen, pattern)
                    /\ SubSeq(pattern, Len(pattern) - 1, Len(pattern)) = AnchorClose
        body == IF anchored
                THEN SubSeq(pattern, Len(AnchorOpen) + 1, Len(pattern) - Len(AnchorClose))
                ELSE pattern
        atoms == RegexAtoms(body)
    IN  IF \E i \in 1..Len(atoms) : atoms[i].cls = "bad"
        THEN [ok |-> FALSE]
        ELSE [ok |-> TRUE, re |-> [anchored |-> anchored, atoms |-> atoms]]

AtomMatches(atom, ch) ==
    CASE atom.cls = "lit" -> ch = atom.ch
      [] atom.cls = "dot" -> ch # LF
      [] OTHER -> ch # LF /\ ch # CR

\* Regex::is_match(string)
is_match(re, string) ==
    LET n == Len(re.atoms)
        At(start) == \A i \in 1..n : AtomMatches(re.atoms[i], string[start + i])
    IN  IF re.anchored
        THEN Len(string) = n /\ At(0)
        ELSE \E start \in 0..(Len(string) - n) : At(start)

-----------------------------------------------------------------------------
(* eval.rs: the regex cache and the I-Regexp preprocessing *)

\* REGEX_CACHE: HashMap<String, Regex>, as the set of its entries.
EmptyCache == {}
CacheHas(c, key) == \E e \in c : e.key = key
CacheGet(c, key) == (CHOOSE e \in c : e.key = key).re
CacheInsert(c, key, re) == {e \in c : e.key # key} \cup {[key |-> key, re |-> re]}

\* The pattern without the ^(?: )$ wrapper, if it has one
PatternBody(pattern) ==
    IF /\ Len(pattern) >= Len(AnchorOpen) + Len(AnchorClose)
       /\ IsPrefix(AnchorOpen, pattern)
       /\ SubSeq(pattern, Len(pattern) - 1, Len(pattern)) = AnchorClose
    THEN SubSeq(pattern, Len(AnchorOpen) + 1, Len(pattern) - Len(AnchorClose))
    ELSE pattern

\* Mutant: the cache is keyed by the pattern without its wrapper, so that match
\* and search share the entry of a pattern.
get_or_compile_regex_keyed_by_body(pattern, c) ==
    IF CacheHas(c, PatternBody(pattern))
    THEN [r |-> [some |-> TRUE, re |-> CacheGet(c, PatternBody(pattern))], c |-> c]
    ELSE With(RegexNew(pattern), LAMBDA compiled :
             IF compiled.ok
             THEN [r |-> [some |-> TRUE, re |-> compiled.re],
                   c |-> CacheInsert(c, PatternBody(pattern), compiled.re)]
             ELSE [r |-> [some |-> FALSE], c |-> c])

\* Mutant: the cache holds the last compiled pattern only.
get_or_compile_regex_last_only(pattern, c) ==
    IF CacheHas(c, pattern)
    THEN [r |-> [some |-> TRUE, re |-> CacheGet(c, pattern)], c |-> c]
    ELSE With(RegexNew(pattern), LAMBDA compiled :
             IF compiled.ok
             THEN [r |-> [some |-> TRUE, re |-> compiled.re],
                   c |-> CacheInsert(EmptyCache, pattern, compiled.re)]
             ELSE [r |-> [some |-> FALSE], c |-> c])

\* get_or_compile_regex(pattern): [r |-> Option<Regex>, c |-> cache afterwards]
get_or_compile_regex(pattern, c) ==
    IF CacheHas(c, pattern)
    THEN [r |-> [some |-> TRUE, re |-> CacheGet(c, pattern)], c |-> c]
    ELSE With(RegexNew(pattern), LAMBDA compiled :
             IF compiled.ok
             THEN [r |-> [some |-> TRUE, re |-> compiled.re],
                   c |-> CacheInsert(c, pattern, compiled.re)]
             ELSE [r |-> [some |-> FALSE], c |-> c])

\* transform_pattern_for_iregexp: the loop over chars, with in_char_class.
RECURSIVE transform_loop(_, _, _)
transform_loop(chars, in_char_class, result) ==
    IF chars = <<>> THEN result
    ELSE LET ch == Head(chars) IN
         IF ch = BS
         THEN IF Len(chars) >= 2
              THEN transform_loop(SubSeq(chars, 3, Len(chars)), in_char_class,
                                  result \o <<ch, chars[2]>>)
              ELSE transform_loop(<<>>, in_char_class, Append(result, ch))
         ELSE IF ch = "[" /\ ~in_char_class
              THEN transform_loop(Tail(chars), TRUE, Append(result, ch))
         ELSE IF ch = "]" /\ in_char_class
              THEN transform_loop(Tail(chars), FALSE, Append(result, ch))
         ELSE IF ch = "." /\ ~in_char_class
              THEN transform_loop(Tail(chars), in_char_class, result \o NotCrLfClass)
         ELSE transform_loop(Tail(chars), in_char_class, Append(result, ch))

\* Mutant: the scan starts as if a character class were open.
transform_pattern_from_class(pattern) == transform_loop(pattern, TRUE, <<>>)

transform_pattern_for_iregexp(pattern) == transform_loop(pattern, FALSE, <<>>)

-----------------------------------------------------------------------------
(* eval.rs: ExprResult, truthiness and comparison *)

ValueResult(v) == [k |-> "Value", vals |-> <<v>>]
NodeListResult(list) == [k |-> "NodeList", vals |-> list]
Nothing == [k |-> "Nothing", vals |-> <<>>]

value_is_truthy(v) ==
    CASE v.t = "null" -> FALSE
      [] v.t = "bool" -> v.b
      [] v.t = "num" -> v.n # 0
      [] v.t = "str" -> v.s # <<>>
      [] v.t = "arr" -> v.a # <<>>
      [] OTHER -> v.o # <<>>

\* Mutant: a node list is tested by the value of its first node.
is_truthy_by_value(res) ==
    CASE res.k = "NodeList" -> res.vals # <<>> /\ value_is_truthy(res.vals[1])
      [] res.k = "Value" -> value_is_truthy(res.vals[1])
      [] OTHER -> FALSE

is_truthy(res) ==
    CASE res.k = "NodeList" -> res.vals # <<>>
      [] res.k = "Value" -> value_is_truthy(res.vals[1])
      [] OTHER -> FALSE

is_singular(res) ==
    CASE res.k = "Value" -> TRUE
      [] res.k = "NodeList" -> Len(res.vals) <= 1
      [] OTHER -> TRUE

\* to_value: Option<&Value>, as the sequence of at most one value.
to_value(res) ==
    CASE res.k = "Value" -> res.vals
      [] res.k = "NodeList" -> IF res.vals = <<>> THEN <<>> ELSE <<res.vals[1]>>
      [] OTHER -> <<>>

values_equal(left, right) ==
    CASE left.t = "null" /\ right.t = "null" -> TRUE
      [] left.t = "bool" /\ right.t = "bool" -> left.b = right.b
      [] left.t = "num" /\ right.t = "num" -> left.n = right.n /\ left.e = right.e
      [] left.t = "str" /\ right.t = "str" -> left.s = right.s
      [] left.t = "arr" /\ right.t = "arr" -> JsonEq(left, right)
      [] left.t = "obj" /\ right.t = "obj" -> JsonEq(left, right)
      [] OTHER -> FALSE

values_less_than(left, right) ==
    CASE left.t = "num" /\ right.t = "num" -> NumLess(left, right)
      [] left.t = "str" /\ right.t = "str" -> StrLess(left.s, right.s)
      [] OTHER -> FALSE

\* Mutant: <= and >= are < and >.
compare_json_values_strict(left, op, right) ==
    CASE op = "Eq" -> values_equal(left, right)
      [] op = "Ne" -> ~values_equal(left, right)
      [] op = "Lt" -> values_less_than(left, right)
      [] op = "Gt" -> values_less_than(right, left)
      [] op = "Le" -> values_less_than(left, right)
      [] OTHER -> values_less_than(right, left)

compare_json_values(left, op, right) ==
    CASE op = "Eq" -> values_equal(left, right)
      [] op = "Ne" -> ~values_equal(left, right)
      [] op = "Lt" -> values_less_than(left, right)
      [] op = "Gt" -> values_less_than(right, left)
      [] op = "Le" -> values_equal(left, right) \/ values_less_than(left, right)
      [] OTHER -> values_equal(left, right) \/ values_less_than(right, left)

\* Mutant: an absent operand is compared as if it were null.
compare_values_absent_as_null(left, op, right) ==
    IF ~is_singular(left) \/ ~is_singular(right) THEN FALSE
    ELSE LET left_val == to_value(left)
             right_val == to_value(right)
         IN  compare_json_values(IF left_val = <<>> THEN Null ELSE left_val[1], op,
                                 IF right_val = <<>> THEN Null ELSE right_val[1])

\* Mutant: a comparison with exactly one absent operand is false for every operator.
compare_values_one_absent_false(left, op, right) ==
    IF ~is_singular(left) \/ ~is_singular(right) THEN FALSE
    ELSE LET left_val == to_value(left)
             right_val == to_value(right)
         IN  CASE left_val # <<>> /\ right_val # <<>> ->
                      compare_json_values(left_val[1], op, right_val[1])
               [] left_val = <<>> /\ right_val = <<>> -> op = "Eq"
               [] OTHER -> FALSE

\* Mutant: two absent operands are not equal.
compare_values_both_absent_false(left, op, right) ==
    IF ~is_singular(left) \/ ~is_singular(right) THEN FALSE
    ELSE LET left_val == to_value(left)
             right_val == to_value(right)
         IN  CASE left_val # <<>> /\ right_val # <<>> ->
                      compare_json_values(left_val[1], op, right_val[1])
               [] left_val = <<>> /\ right_val = <<>> -> FALSE
               [] OTHER -> op = "Ne"

compare_values(left, op, right) ==
    IF ~is_singular(left) \/ ~is_singular(right) THEN FALSE
    ELSE LET left_val == to_value(left)
             right_val == to_value(right)
         IN  CASE left_val # <<>> /\ right_val # <<>> ->
                      compare_json_values(left_val[1], op, right_val[1])
               [] left_val = <<>> /\ right_val = <<>> -> op = "Eq"
               [] OTHER -> op = "Ne"

-----------------------------------------------------------------------------
(* eval.rs: index, slice and descendant helpers *)

Max(a, b) == IF a >= b THEN a ELSE b
Min(a, b) == IF a <= b THEN a ELSE b

\* Mutant: a negative index selects nothing.
normalize_index_from_start(idx, len) ==
    IF idx >= 0 /\ idx < len THEN Some(idx) ELSE None

\* normalize_index(idx, len): Option<usize>
normalize_index(idx, len) ==
    IF idx >= 0
    THEN IF idx < len THEN Some(idx) ELSE None
    ELSE LET normalized == len + idx
         IN  IF normalized >= 0 THEN Some(normalized) ELSE None

normalize_slice_bound(bound, len) ==
    IF bound >= 0 THEN bound ELSE Max(len + bound, 0)

normalize_slice_bound_for_negative_step(bound, len) ==
    IF bound >= 0 THEN bound ELSE Max(len + bound, -1)

\* The node a failed bounds check stands for: &arr[i] with i out of range
\* panics, and the panic is recorded as this node in the result.
PanicNode == <<-1>>

\* &arr[i as usize] for the array at `node`
IndexRef(node, len, i) == IF i >= 0 /\ i < len THEN Append(node, i + 1) ELSE PanicNode

\* The two while loops of evaluate_slice.
RECURSIVE slice_loop(_, _, _, _, _, _)
slice_loop(node, len, i, end, step, results) ==
    IF (step > 0 /\ i < end) \/ (step < 0 /\ i > end)
    THEN slice_loop(node, len, i + step, end, step,
                    IF i >= 0 /\ i < len
                    THEN Append(results, IndexRef(node, len, i))
                    ELSE results)
    ELSE results

\* Mutant: a negative step's end bound defaults and clamps to 0, not -1.
evaluate_slice_end_at_zero(node, len, start, end, step) ==
    LET st == IF step.some THEN step.val ELSE 1 IN
    IF st = 0 THEN <<>>
    ELSE IF st > 0
    THEN LET s0 == IF start.some THEN normalize_slice_bound(start.val, len) ELSE 0
             e0 == IF end.some THEN normalize_slice_bound(end.val, len) ELSE len
         IN  slice_loop(node, len, Max(s0, 0), Min(e0, len), st, <<>>)
    ELSE LET s0 == IF start.some THEN normalize_slice_bound(start.val, len) ELSE len - 1
             e0 == IF end.some THEN normalize_slice_bound(end.val, len) ELSE 0
         IN  slice_loop(node, len, Min(s0, len - 1), Max(e0, 0), st, <<>>)

\* evaluate_slice(arr, start, end, step), arr being the array at `node`
evaluate_slice(node, len, start, end, step) ==
    LET st == IF step.some THEN step.val ELSE 1 IN
    IF st = 0 THEN <<>>
    ELSE IF st > 0
    THEN LET s0 == IF start.some THEN normalize_slice_bound(start.val, len) ELSE 0
             e0 == IF end.some THEN normalize_slice_bound(end.val, len) ELSE len
         IN  slice_loop(node, len, Max(s0, 0), Min(e0, len), st, <<>>)
    ELSE LET s0 == IF start.some THEN normalize_slice_bound(start.val, len) ELSE len - 1
             e0 == IF end.some
                   THEN normalize_slice_bound_for_negative_step(end.val, len)
                   ELSE -1
         IN  slice_loop(node, len, Min(s0, len - 1), Max(e0, -1), st, <<>>)

\* i64 in full width, as three limbs: a * 2^44 + b * 2^22 + c with
\* -2^19 <= a < 2^19 and 0 <= b, c < 2^22
LimbBase == 2 ^ 22
TopHalf == 2 ^ 19
I64(n) ==
    [a |-> (n \div LimbBase) \div LimbBase, b |-> (n \div LimbBase) % LimbBase,
     c |-> n % LimbBase]
I64_MAX == [a |-> TopHalf - 1, b |-> LimbBase - 1, c |-> LimbBase - 1]
I64_MIN == [a |-> -TopHalf, b |-> 0, c |-> 0]

\* x + y before it is stored: the top limb may be out of range
carried_sum(x, y) ==
    [a |-> x.a + y.a + (x.b + y.b + (x.c + y.c) \div LimbBase) \div LimbBase,
     b |-> (x.b + y.b + (x.c + y.c) \div LimbBase) % LimbBase,
     c |-> (x.c + y.c) % LimbBase]
\* x + y does not fit i64
overflows(x, y) == carried_sum(x, y).a \notin (-TopHalf)..(TopHalf - 1)
\* x + y modulo 2^64, what += stores when overflow checks are off
wrapping_add(x, y) ==
    [carried_sum(x, y) EXCEPT !.a = ((@ + TopHalf) % (2 * TopHalf)) - TopHalf]

lt_i64(x, y) ==
    \/ x.a < y.a
    \/ x.a = y.a /\ (x.b < y.b \/ (x.b = y.b /\ x.c < y.c))
max_i64(x, y) == IF lt_i64(x, y) THEN y ELSE x
min_i64(x, y) == IF lt_i64(x, y) THEN x ELSE y

\* normalize_slice_bound and normalize_slice_bound_for_negative_step on i64;
\* len + bound fits, len being no less than 0 and bound less than 0
normalize_slice_bound_i64(bound, len) ==
    IF ~lt_i64(bound, I64(0)) THEN bound ELSE max_i64(wrapping_add(len, bound), I64(0))
normalize_slice_bound_for_negative_step_i64(bound, len) ==
    IF ~lt_i64(bound, I64(0)) THEN bound ELSE max_i64(wrapping_add(len, bound), I64(-1))

\* The two while loops of evaluate_slice on i64. i += step panics on overflow
\* in a build with overflow checks and wraps in a build without; the panic is
\* recorded as PanicNode.
RECURSIVE slice_loop_i64(_, _, _, _, _, _, _)
slice_loop_i64(overflow_checks, node, len, i, end, step, results) ==
    IF \/ lt_i64(I64(0), step) /\ lt_i64(i, end)
       \/ lt_i64(step, I64(0)) /\ lt_i64(end, i)
    THEN With(IF ~lt_i64(i, I64(0)) /\ lt_i64(i, I64(len))
              THEN Append(results, IndexRef(node, len, i.c))
              ELSE results,
              LAMBDA pushed :
                  IF overflow_checks /\ overflows(i, step)
                  THEN Append(pushed, PanicNode)
                  ELSE slice_loop_i64(overflow_checks, node, len, wrapping_add(i, step),
                                      end, step, pushed))
    ELSE results

\* evaluate_slice(arr, start, end, step) on i64
evaluate_slice_i64(overflow_checks, node, len, start, end, step) ==
    With(IF step.some THEN step.val ELSE I64(1), LAMBDA st :
        IF st = I64(0) THEN <<>>
        ELSE IF lt_i64(I64(0), st)
        THEN slice_loop_i64(overflow_checks, node, len,
                 max_i64(IF start.some THEN normalize_slice_bound_i64(start.val, I64(len))
                         ELSE I64(0), I64(0)),
                 min_i64(IF end.some THEN normalize_slice_bound_i64(end.val, I64(len))
                         ELSE I64(len), I64(len)),
                 st, <<>>)
        ELSE slice_loop_i64(overflow_checks, node, len,
                 min_i64(IF start.some THEN normalize_slice_bound_i64(start.val, I64(len))
                         ELSE I64(len - 1), I64(len - 1)),
                 max_i64(IF end.some
                         THEN normalize_slice_bound_for_negative_step_i64(end.val, I64(len))
                         ELSE I64(-1), I64(-1)),
                 st, <<>>))

\* The references to the children of the node at `node`, in document order.
ChildRefs(root, node) ==
    [i \in 1..Len(Children(ValueAt(root, node))) |-> Append(node, i)]

\* Mutant: the children are pushed in document order, not reversed.
RECURSIVE collect_loop_unreversed(_, _, _)
collect_loop_unreversed(root, stack, results) ==
    IF stack = <<>> THEN results
    ELSE LET current == stack[Len(stack)]
             popped == SubSeq(stack, 1, Len(stack) - 1)
         IN  collect_loop_unreversed(root, popped \o ChildRefs(root, current),
                                     Append(results, current))

\* collect_descendants: the while loop over the explicit stack.
RECURSIVE collect_loop(_, _, _)
collect_loop(root, stack, results) ==
    IF stack = <<>> THEN results
    ELSE LET current == stack[Len(stack)]
             popped == SubSeq(stack, 1, Len(stack) - 1)
         IN  collect_loop(root, popped \o Reverse(ChildRefs(root, current)),
                          Append(results, current))

collect_descendants(root, node) == collect_loop(root, <<node>>, <<>>)

-----------------------------------------------------------------------------
(* eval.rs: selectors, segments, filter expressions and functions *)

RECURSIVE evaluate_expr(_, _, _, _)
RECURSIVE evaluate_selector_in_path(_, _, _, _)

\* Mutant: the kept element is referenced from the filtered node, not from
\* the root.
RECURSIVE filter_loop_relative(_, _, _, _, _, _)
filter_loop_relative(expr, node, root, i, results, c) ==
    IF i > Len(Children(ValueAt(root, node))) THEN [r |-> results, c |-> c]
    ELSE With(evaluate_expr(expr, Append(node, i), root, c), LAMBDA result :
             filter_loop_relative(expr, node, root, i + 1,
                         IF is_truthy(result.r)
                         THEN Append(results, <<i>>)
                         ELSE results,
                         result.c))

\* arr.iter().filter(|elem| evaluate_expr(expr, elem, root).is_truthy()), and
\* the same over map.values(): child i of `node` onwards.
RECURSIVE filter_loop(_, _, _, _, _, _)
filter_loop(expr, node, root, i, results, c) ==
    IF i > Len(Children(ValueAt(root, node))) THEN [r |-> results, c |-> c]
    ELSE With(evaluate_expr(expr, Append(node, i), root, c), LAMBDA result :
             filter_loop(expr, node, root, i + 1,
                         IF is_truthy(result.r)
                         THEN Append(results, Append(node, i))
                         ELSE results,
                         result.c))

evaluate_filter(expr, node, root, c) ==
    LET v == ValueAt(root, node) IN
    IF v.t = "arr" \/ v.t = "obj"
    THEN filter_loop(expr, node, root, 1, <<>>, c)
    ELSE [r |-> <<>>, c |-> c]

evaluate_selector(selector, node, root, c) ==
    LET v == ValueAt(root, node) IN
    CASE selector.kind = "Name" ->
             [r |-> IF v.t = "obj" /\ MapGet(v.o, selector.name) # 0
                    THEN <<Append(node, MapGet(v.o, selector.name))>>
                    ELSE <<>>,
              c |-> c]
      [] selector.kind = "Index" ->
             [r |-> IF v.t = "arr"
                    THEN LET index == normalize_index(selector.idx, Len(v.a))
                         IN  IF index.some /\ index.val < Len(v.a)
                             THEN <<Append(node, index.val + 1)>>
                             ELSE <<>>
                    ELSE <<>>,
              c |-> c]
      [] selector.kind = "Wildcard" ->
             [r |-> IF v.t = "arr" \/ v.t = "obj" THEN ChildRefs(root, node) ELSE <<>>,
              c |-> c]
      [] selector.kind = "Slice" ->
             [r |-> IF v.t = "arr"
                    THEN evaluate_slice(node, Len(v.a), selector.start, selector.end,
                                        selector.step)
                    ELSE <<>>,
              c |-> c]
      [] OTHER -> evaluate_filter(selector.expr, node, root, c)

\* Mutant: a node that is in the results already is not added again.
RECURSIVE child_loop_once(_, _, _, _, _, _, _)
child_loop_once(selectors, nds, root, i, j, results, c) ==
    IF i > Len(nds) THEN [r |-> results, c |-> c]
    ELSE IF j > Len(selectors)
    THEN child_loop_once(selectors, nds, root, i + 1, 1, results, c)
    ELSE With(evaluate_selector(selectors[j], nds[i], root, c), LAMBDA got :
             child_loop_once(selectors, nds, root, i, j + 1,
                 results \o SelectSeq(got.r,
                                LAMBDA x : \A k \in 1..Len(results) : results[k] # x),
                 got.c))

\* for node in nodes { for selector in selectors { results.extend(..) } }
RECURSIVE child_loop(_, _, _, _, _, _, _)
child_loop(selectors, nds, root, i, j, results, c) ==
    IF i > Len(nds) THEN [r |-> results, c |-> c]
    ELSE IF j > Len(selectors)
    THEN child_loop(selectors, nds, root, i + 1, 1, results, c)
    ELSE With(evaluate_selector(selectors[j], nds[i], root, c), LAMBDA got :
             child_loop(selectors, nds, root, i, j + 1, results \o got.r, got.c))

\* for node in nodes { for desc in collect_descendants(node) { for selector .. } }
RECURSIVE descendant_loop(_, _, _, _, _, _)
descendant_loop(selectors, nds, root, i, results, c) ==
    IF i > Len(nds) THEN [r |-> results, c |-> c]
    ELSE With(child_loop(selectors, collect_descendants(root, nds[i]), root, 1, 1,
                   results, c),
              LAMBDA got : descendant_loop(selectors, nds, root, i + 1, got.r, got.c))

evaluate_segment(segment, nds, root, c) ==
    IF segment.kind = "Child"
    THEN child_loop(segment.selectors, nds, root, 1, 1, <<>>, c)
    ELSE descendant_loop(segment.selectors, nds, root, 1, <<>>, c)

\* for segment in &path.segments { current = evaluate_segment(..) }
RECURSIVE segments_loop(_, _, _, _, _)
segments_loop(segments, i, current, root, c) ==
    IF i > Len(segments) THEN [r |-> current, c |-> c]
    ELSE With(evaluate_segment(segments[i], current, root, c), LAMBDA got :
             segments_loop(segments, i + 1, got.r, root, got.c))

\* evaluate(path, root): the node list, and the cache afterwards
evaluate(p, root, c) == segments_loop(p.segments, 1, <<<<>>>>, root, c)

(* The copy used for paths inside filter expressions. *)

RECURSIVE filter_loop_in_path(_, _, _, _, _, _)
filter_loop_in_path(expr, node, root, i, results, c) ==
    IF i > Len(Children(ValueAt(root, node))) THEN [r |-> results, c |-> c]
    ELSE With(evaluate_expr(expr, Append(node, i), root, c), LAMBDA result :
             filter_loop_in_path(expr, node, root, i + 1,
                         IF is_truthy(result.r)
                         THEN Append(results, Append(node, i))
                         ELSE results,
                         result.c))

\* Mutant: inside a filter path a nested filter tests array elements only.
evaluate_selector_in_path_arrays_only(selector, node, root, c) ==
    LET v == ValueAt(root, node) IN
    CASE selector.kind = "Name" ->
             [r |-> IF v.t = "obj" /\ MapGet(v.o, selector.name) # 0
                    THEN <<Append(node, MapGet(v.o, selector.name))>>
                    ELSE <<>>,
              c |-> c]
      [] selector.kind = "Index" ->
             [r |-> IF v.t = "arr"
                    THEN LET index == normalize_index(selector.idx, Len(v.a))
                         IN  IF index.some /\ index.val < Len(v.a)
                             THEN <<Append(node, index.val + 1)>>
                             ELSE <<>>
                    ELSE <<>>,
              c |-> c]
      [] selector.kind = "Wildcard" ->
             [r |-> IF v.t = "arr" \/ v.t = "obj" THEN ChildRefs(root, node) ELSE <<>>,
              c |-> c]
      [] selector.kind = "Slice" ->
             [r |-> IF v.t = "arr"
                    THEN evaluate_slice(node, Len(v.a), selector.start, selector.end,
                                        selector.step)
                    ELSE <<>>,
              c |-> c]
      [] OTHER ->
             IF v.t = "arr"
             THEN filter_loop_in_path(selector.expr, node, root, 1, <<>>, c)
             ELSE [r |-> <<>>, c |-> c]

evaluate_selector_in_path(selector, node, root, c) ==
    LET v == ValueAt(root, node) IN
    CASE selector.kind = "Name" ->
             [r |-> IF v.t = "obj" /\ MapGet(v.o, selector.name) # 0
                    THEN <<Append(node, MapGet(v.o, selector.name))>>
                    ELSE <<>>,
              c |-> c]
      [] selector.kind = "Index" ->
             [r |-> IF v.t = "arr"
                    THEN LET index == normalize_index(selector.idx, Len(v.a))
                         IN  IF index.some /\ index.val < Len(v.a)
                             THEN <<Append(node, index.val + 1)>>
                             ELSE <<>>
                    ELSE <<>>,
              c |-> c]
      [] selector.kind = "Wildcard" ->
             [r |-> IF v.t = "arr" \/ v.t = "obj" THEN ChildRefs(root, node) ELSE <<>>,
              c |-> c]
      [] selector.kind = "Slice" ->
             [r |-> IF v.t = "arr"
                    THEN evaluate_slice(node, Len(v.a), selector.start, selector.end,
                                        selector.step)
                    ELSE <<>>,
              c |-> c]
      [] OTHER ->
             IF v.t = "arr" \/ v.t = "obj"
             THEN filter_loop_in_path(selector.expr, node, root, 1, <<>>, c)
             ELSE [r |-> <<>>, c |-> c]

RECURSIVE child_loop_for_expr(_, _, _, _, _, _, _)
child_loop_for_expr(selectors, nds, root, i, j, results, c) ==
    IF i > Len(nds) THEN [r |-> results, c |-> c]
    ELSE IF j > Len(selectors)
    THEN child_loop_for_expr(selectors, nds, root, i + 1, 1, results, c)
    ELSE With(evaluate_selector_in_path(selectors[j], nds[i], root, c), LAMBDA got :
             child_loop_for_expr(selectors, nds, root, i, j + 1, results \o got.r, got.c))

RECURSIVE descendant_loop_for_expr(_, _, _, _, _, _)
descendant_loop_for_expr(selectors, nds, root, i, results, c) ==
    IF i > Len(nds) THEN [r |-> results, c |-> c]
    ELSE With(child_loop_for_expr(selectors, collect_descendants(root, nds[i]), root, 1, 1,
                   results, c),
              LAMBDA got : descendant_loop_for_expr(selectors, nds, root, i + 1, got.r, got.c))

evaluate_segment_for_expr(segment, nds, root, c) ==
    IF segment.kind = "Child"
    THEN child_loop_for_expr(segment.selectors, nds, root, 1, 1, <<>>, c)
    ELSE descendant_loop_for_expr(segment.selectors, nds, root, 1, <<>>, c)

RECURSIVE path_segments_loop(_, _, _, _, _)
path_segments_loop(segments, i, current, root, c) ==
    IF i > Len(segments) THEN [r |-> current, c |-> c]
    ELSE With(evaluate_segment_for_expr(segments[i], current, root, c), LAMBDA got :
             path_segments_loop(segments, i + 1, got.r, root, got.c))

\* evaluate_path_segments(segments, start, root)
evaluate_path_segments(segments, start, root, c) ==
    path_segments_loop(segments, 1, <<start>>, root, c)

\* results.into_iter().cloned().collect(): the values the references denote
Cloned(root, refs) == [i \in 1..Len(refs) |-> ValueAt(root, refs[i])]

BoolResult(x) == ValueResult(Bool(x))

fn_length(args, current, root, c) ==
    IF Len(args) # 1 THEN [r |-> Nothing, c |-> c]
    ELSE With(evaluate_expr(args[1], current, root, c), LAMBDA arg :
         With(to_value(arg.r), LAMBDA v :
             [r |-> IF v = <<>> THEN Nothing
                    ELSE CASE v[1].t = "str" -> ValueResult(Num(Len(v[1].s)))
                           [] v[1].t = "arr" -> ValueResult(Num(Len(v[1].a)))
                           [] v[1].t = "obj" -> ValueResult(Num(Len(v[1].o)))
                           [] OTHER -> Nothing,
              c |-> arg.c]))

fn_count(args, current, root, c) ==
    IF Len(args) # 1 THEN [r |-> Nothing, c |-> c]
    ELSE With(evaluate_expr(args[1], current, root, c), LAMBDA arg :
             [r |-> ValueResult(Num(CASE arg.r.k = "NodeList" -> Len(arg.r.vals)
                                      [] arg.r.k = "Value" -> 1
                                      [] OTHER -> 0)),
              c |-> arg.c])

\* Mutant: value() of several nodes is the first of them.
fn_value_first_node(args, current, root, c) ==
    IF Len(args) # 1 THEN [r |-> Nothing, c |-> c]
    ELSE With(evaluate_expr(args[1], current, root, c), LAMBDA arg :
             [r |-> CASE arg.r.k = "Value" -> arg.r
                      [] arg.r.k = "NodeList" /\ Len(arg.r.vals) >= 1 ->
                             ValueResult(arg.r.vals[1])
                      [] OTHER -> Nothing,
              c |-> arg.c])

fn_value(args, current, root, c) ==
    IF Len(args) # 1 THEN [r |-> Nothing, c |-> c]
    ELSE With(evaluate_expr(args[1], current, root, c), LAMBDA arg :
             [r |-> CASE arg.r.k = "Value" -> arg.r
                      [] arg.r.k = "NodeList" /\ Len(arg.r.vals) = 1 ->
                             ValueResult(arg.r.vals[1])
                      [] OTHER -> Nothing,
              c |-> arg.c])

\* The key fn_match hands to get_or_compile_regex.
anchored_pattern(transformed) == AnchorOpen \o transformed \o AnchorClose

\* What fn_match and fn_search do once both arguments are evaluated.
regex_key(anchor, transformed) ==
    IF anchor THEN anchored_pattern(transformed) ELSE transformed

regex_call(anchor, string_arg, pattern_arg, c) ==
    With(to_value(string_arg), LAMBDA string :
    With(to_value(pattern_arg), LAMBDA pattern :
        IF string = <<>> \/ string[1].t # "str" THEN [r |-> BoolResult(FALSE), c |-> c]
        ELSE IF pattern = <<>> \/ pattern[1].t # "str"
        THEN [r |-> BoolResult(FALSE), c |-> c]
        ELSE With(get_or_compile_regex(
                      regex_key(anchor, transform_pattern_for_iregexp(pattern[1].s)), c),
                  LAMBDA got :
                      [r |-> IF got.r.some
                             THEN BoolResult(is_match(got.r.re, string[1].s))
                             ELSE BoolResult(FALSE),
                       c |-> got.c])))

fn_match(args, current, root, c) ==
    IF Len(args) # 2 THEN [r |-> Nothing, c |-> c]
    ELSE With(evaluate_expr(args[1], current, root, c), LAMBDA string_arg :
         With(evaluate_expr(args[2], current, root, string_arg.c), LAMBDA pattern_arg :
             regex_call(TRUE, string_arg.r, pattern_arg.r, pattern_arg.c)))

fn_search(args, current, root, c) ==
    IF Len(args) # 2 THEN [r |-> Nothing, c |-> c]
    ELSE With(evaluate_expr(args[1], current, root, c), LAMBDA string_arg :
         With(evaluate_expr(args[2], current, root, string_arg.c), LAMBDA pattern_arg :
             regex_call(FALSE, string_arg.r, pattern_arg.r, pattern_arg.c)))

evaluate_function(name, args, current, root, c) ==
    CASE name = Chars_length -> fn_length(args, current, root, c)
      [] name = Chars_count -> fn_count(args, current, root, c)
      [] name = Chars_value -> fn_value(args, current, root, c)
      [] name = Chars_match -> fn_match(args, current, root, c)
      [] name = Chars_search -> fn_search(args, current, root, c)
      [] OTHER -> [r |-> Nothing, c |-> c]

\* evaluate_expr(expr, current, root): `current` is the reference to the
\* element under test.
evaluate_expr(expr, current, root, c) ==
    CASE expr.kind = "CurrentNode" ->
             [r |-> NodeListResult(<<ValueAt(root, current)>>), c |-> c]
      [] expr.kind = "RootNode" -> [r |-> ValueResult(root), c |-> c]
      [] expr.kind = "Path" ->
             IF expr.start.kind \notin {"CurrentNode", "RootNode"}
             THEN [r |-> Nothing, c |-> c]
             ELSE With(evaluate_path_segments(expr.segments,
                           IF expr.start.kind = "CurrentNode" THEN current ELSE <<>>,
                           root, c),
                       LAMBDA results :
                           [r |-> IF results.r = <<>> THEN Nothing
                                  ELSE NodeListResult(Cloned(root, results.r)),
                            c |-> results.c])
      [] expr.kind = "Literal" -> [r |-> ValueResult(expr.lit), c |-> c]
      [] expr.kind = "Comparison" ->
             With(evaluate_expr(expr.left, current, root, c), LAMBDA left_result :
             With(evaluate_expr(expr.right, current, root, left_result.c),
                  LAMBDA right_result :
                 [r |-> BoolResult(compare_values(left_result.r, expr.op, right_result.r)),
                  c |-> right_result.c]))
      [] expr.kind = "Logical" ->
             With(evaluate_expr(expr.left, current, root, c), LAMBDA left_result :
                 IF expr.op = "And"
                 THEN IF ~is_truthy(left_result.r)
                      THEN [r |-> BoolResult(FALSE), c |-> left_result.c]
                      ELSE With(evaluate_expr(expr.right, current, root, left_result.c),
                                LAMBDA right_result :
                                    [r |-> BoolResult(is_truthy(right_result.r)),
                                     c |-> right_result.c])
                 ELSE IF is_truthy(left_result.r)
                      THEN [r |-> BoolResult(TRUE), c |-> left_result.c]
                      ELSE With(evaluate_expr(expr.right, current, root, left_result.c),
                                LAMBDA right_result :
                                    [r |-> BoolResult(is_truthy(right_result.r)),
                                     c |-> right_result.c]))
      [] expr.kind = "Not" ->
             With(evaluate_expr(expr.inner, current, root, c), LAMBDA inner_result :
                 [r |-> BoolResult(~is_truthy(inner_result.r)), c |-> inner_result.c])
      [] OTHER -> evaluate_function(expr.name, expr.args, current, root, c)

-----------------------------------------------------------------------------
(* lexer.rs: characters *)

QUOTE == "'"
DQUOTE == "\""
EAcute == "é"          \* U+00E9, two bytes in UTF-8
NBSP == " "            \* U+00A0 NO-BREAK SPACE, two bytes in UTF-8
VT == "U+11"            \* U+000B, the vertical tab
GRAVE == "U+96"        \* the grave accent, which a string of this language cannot hold

\* U+0020 .. U+007E in code order
PrintableAscii ==
    << " ", "!", DQUOTE, "#", "$", "%", "&", QUOTE, "(", ")", "*", "+", ",", "-", ".",
       "/", "0", "1", "2", "3", "4", "5", "6", "7", "8", "9", ":", ";", "<", "=", ">",
       "?", "@", "A", "B", "C", "D", "E", "F", "G", "H", "I", "J", "K", "L", "M", "N",
       "O", "P", "Q", "R", "S", "T", "U", "V", "W", "X", "Y", "Z", "[", BS, "]", "^",
       "_", GRAVE, "a", "b", "c", "d", "e", "f", "g", "h", "i", "j", "k", "l", "m", "n",
       "o", "p", "q", "r", "s", "t", "u", "v", "w", "x", "y", "z", "{", "|", "}", "~" >>

AsciiDigit == {"0", "1", "2", "3", "4", "5", "6", "7", "8", "9"}
AsciiAlphabetic == {PrintableAscii[i] : i \in (34..59) \cup (66..91)}
HexDigits == <<"0", "1", "2", "3", "4", "5", "6", "7", "8", "9", "a", "b", "c", "d", "e", "f">>
HexDigitsUpper == <<"0", "1", "2", "3", "4", "5", "6", "7", "8", "9", "A", "B", "C", "D", "E", "F">>

is_ascii_digit(ch) == ch \in AsciiDigit
is_ascii_hexdigit(ch) == \E i \in 1..16 : ch = HexDigits[i] \/ ch = HexDigitsUpper[i]

\* char::is_whitespace, for the white-space characters written in this module
is_whitespace(ch) == ch \in {" ", "\t", "\n", "\r", "\f", VT, NBSP}

\* ch as u32 <= 0x1F, for the control characters written in this module
is_control(ch) == ch \in {"\t", "\n", "\r", "\f", VT}

\* The characters in %x80-D7FF / %xE000-10FFFF written in this module
NonAscii == {EAcute, NBSP}

\* char::len_utf8
len_utf8(ch) == IF ch \in NonAscii THEN 2 ELSE 1

\* String::len(): the length in bytes
RECURSIVE ByteLen(_)
ByteLen(s) == IF s = <<>> THEN 0 ELSE len_utf8(Head(s)) + ByteLen(Tail(s))

\* char::from_u32(code): None for a surrogate or a value beyond U+10FFFF.
\* A character with no literal in this module is written U+<code>.
char_from_u32(code) ==
    IF (code >= 55296 /\ code <= 57343) \/ code > 1114111 THEN None
    ELSE IF code >= 32 /\ code <= 126 THEN Some(PrintableAscii[code - 31])
    ELSE IF code = 233 THEN Some(EAcute)
    ELSE IF code = 9 THEN Some("\t")
    ELSE IF code = 10 THEN Some("\n")
    ELSE IF code = 12 THEN Some("\f")
    ELSE IF code = 13 THEN Some("\r")
    ELSE Some("U+" \o ToString(code))

is_ident_start(ch) == ch \in AsciiAlphabetic \/ ch = "_" \/ ch \in NonAscii
is_ident_char(ch) == is_ident_start(ch) \/ is_ascii_digit(ch)

DigitValue(ch) == CHOOSE i \in 0..15 : ch = HexDigits[i + 1] \/ ch = HexDigitsUpper[i + 1]

\* The number a digit string denotes in the given radix.
RECURSIVE from_str_radix(_, _)
from_str_radix(digits, radix) ==
    IF digits = <<>> THEN 0
    ELSE from_str_radix(SubSeq(digits, 1, Len(digits) - 1), radix) * radix
             + DigitValue(digits[Len(digits)])

(* lexer.rs: tokens *)

Token(kind, position) == [kind |-> kind, position |-> position]
TextToken(kind, text, position) == [kind |-> kind, position |-> position, text |-> text]

\* TokenKind::Number(value, has_fraction_or_exp): the f64 is kept as its sign,
\* its decimal digits and its exponent, (IF neg THEN -1 ELSE 1) * digits * 10^e.
NumberToken(value, has_fraction_or_exp, position) ==
    [kind |-> "Number", position |-> position, num |-> value,
     has_decimal_or_exp |-> has_fraction_or_exp]

LexerError(message, position) == [ok |-> FALSE, message |-> message, position |-> position]

\* self.chars.peek(): the character at `position`, EndOfInput for None
EndOfInput == ""
peek(input, position) == IF position < Len(input) THEN input[position + 1] ELSE EndOfInput

RECURSIVE skip_whitespace(_, _)
skip_whitespace(input, position) ==
    IF peek(input, position) # EndOfInput /\ is_whitespace(peek(input, position))
    THEN skip_whitespace(input, position + 1)
    ELSE position

\* read_unicode_escape: the loop over the four hex digits, k digits read so far
RECURSIVE read_unicode_escape_loop(_, _, _)
read_unicode_escape_loop(input, position, hex) ==
    IF Len(hex) = 4 THEN [ok |-> TRUE, code |-> from_str_radix(hex, 16), pos |-> position]
    ELSE IF peek(input, position) = EndOfInput
    THEN LexerError("invalid unicode escape: expected 4 hex digits", position)
    ELSE IF ~is_ascii_hexdigit(peek(input, position))
    THEN LexerError("invalid unicode escape: expected 4 hex digits", position + 1)
    ELSE read_unicode_escape_loop(input, position + 1, Append(hex, peek(input, position)))

read_unicode_escape(input, position) == read_unicode_escape_loop(input, position, <<>>)

\* The character an escape letter stands for; None for an invalid escape.
escaped_char(escaped) ==
    CASE escaped = "n" -> Some("\n")
      [] escaped = "t" -> Some("\t")
      [] escaped = "r" -> Some("\r")
      [] escaped = BS -> Some(BS)
      [] escaped = QUOTE -> Some(QUOTE)
      [] escaped = DQUOTE -> Some(DQUOTE)
      [] escaped = "b" -> char_from_u32(8)
      [] escaped = "f" -> Some("\f")
      [] escaped = "/" -> Some("/")
      [] OTHER -> None

RECURSIVE string_loop(_, _, _, _, _)

\* value.push(ch) for char::from_u32(code), then the loop goes on
push_code_point(input, position, quote, value, start_pos, code) ==
    IF char_from_u32(code).some
    THEN string_loop(input, position, quote, Append(value, char_from_u32(code).val),
                     start_pos)
    ELSE LexerError("invalid unicode code point", position)

\* The 'u' arm of read_string, `position` being just after the `\u`.
unicode_escape(input, position, quote, value, start_pos) ==
    With(read_unicode_escape(input, position), LAMBDA high :
        IF ~high.ok THEN high
        ELSE IF high.code < 55296 \/ high.code > 56319
        THEN push_code_point(input, high.pos, quote, value, start_pos, high.code)
        ELSE IF peek(input, high.pos) # BS
        THEN LexerError("invalid surrogate pair",
                        IF peek(input, high.pos) = EndOfInput
                        THEN high.pos ELSE high.pos + 1)
        ELSE IF peek(input, high.pos + 1) # "u"
        THEN LexerError("invalid surrogate pair",
                        IF peek(input, high.pos + 1) = EndOfInput
                        THEN high.pos + 1 ELSE high.pos + 2)
        ELSE With(read_unicode_escape(input, high.pos + 2), LAMBDA low :
            IF ~low.ok THEN low
            ELSE IF low.code < 56320 \/ low.code > 57343
            THEN LexerError("invalid low surrogate", low.pos)
            ELSE push_code_point(input, low.pos, quote, value, start_pos,
                     65536 + (high.code - 55296) * 1024 + (low.code - 56320))))

\* read_string: the loop, `position` being the next character to read
string_loop(input, position, quote, value, start_pos) ==
    With(peek(input, position), LAMBDA ch :
        IF ch = EndOfInput THEN LexerError("unterminated string", start_pos)
        ELSE IF ch = quote
        THEN [ok |-> TRUE, token |-> TextToken("String", value, start_pos - 1),
              pos |-> position + 1]
        ELSE IF ch = BS
        THEN With(peek(input, position + 1), LAMBDA escaped :
                 IF escaped = EndOfInput
                 THEN LexerError("unexpected end of input in escape sequence", position + 1)
                 ELSE IF escaped = "u"
                 THEN unicode_escape(input, position + 2, quote, value, start_pos)
                 ELSE IF escaped_char(escaped).some
                 THEN string_loop(input, position + 2, quote,
                                  Append(value, escaped_char(escaped).val), start_pos)
                 ELSE LexerError("invalid escape sequence", position + 1))
        ELSE IF is_control(ch) THEN LexerError("unescaped control character", position)
        ELSE string_loop(input, position + 1, quote, Append(value, ch), start_pos))

\* read_string, `position` being the opening quote
read_string(input, position) ==
    string_loop(input, position + 1, peek(input, position), <<>>, position + 1)

\* while let Some(&ch) = peek() { if ch.is_ascii_digit() { push } else { break } }
RECURSIVE digits_loop(_, _, _)
digits_loop(input, position, digits) ==
    IF peek(input, position) # EndOfInput /\ is_ascii_digit(peek(input, position))
    THEN digits_loop(input, position + 1, Append(digits, peek(input, position)))
    ELSE [text |-> digits, pos |-> position]

\* read_number: the optional decimal part
decimal_part(input, position) ==
    IF /\ peek(input, position) = "."
       /\ peek(input, position + 1) # EndOfInput
       /\ is_ascii_digit(peek(input, position + 1))
    THEN digits_loop(input, position + 1, <<>>)
    ELSE [text |-> <<>>, pos |-> position]

\* read_number: the optional exponent part; sign is "+", "-" or empty
exponent_part(input, position) ==
    IF peek(input, position) \in {"e", "E"}
    THEN With(IF peek(input, position + 1) \in {"+", "-"}
              THEN <<peek(input, position + 1)>> ELSE <<>>,
              LAMBDA sign :
                  [present |-> TRUE, sign |-> sign]
                      @@ digits_loop(input, position + 1 + Len(sign), <<>>))
    ELSE [present |-> FALSE, sign |-> <<>>, text |-> <<>>, pos |-> position]

\* num_str.parse::<f64>() for a num_str made of the given parts
parse_f64(is_negative, int_part, decimals, exp) ==
    IF int_part = <<>> /\ decimals = <<>> THEN [ok |-> FALSE]
    ELSE [ok |-> TRUE,
          value |-> [neg |-> is_negative,
                     digits |-> int_part \o decimals,
                     e |-> (IF exp.sign = <<"-">> THEN -1 ELSE 1)
                               * from_str_radix(exp.text, 10) - Len(decimals)]]

read_number(input, start_pos) ==
    With(peek(input, start_pos) = "-", LAMBDA is_negative :
    With(digits_loop(input, IF is_negative THEN start_pos + 1 ELSE start_pos, <<>>),
         LAMBDA int :
        IF Len(int.text) > 1 /\ Head(int.text) = "0"
        THEN LexerError("leading zeros not allowed", start_pos)
        ELSE With(decimal_part(input, int.pos), LAMBDA decimals :
             With(exponent_part(input, decimals.pos), LAMBDA exp :
                 IF exp.present /\ exp.text = <<>>
                 THEN LexerError("invalid exponent in number", start_pos)
                 ELSE IF int.text = <<>> /\ decimals.text = <<>> /\ ~exp.present
                 THEN LexerError("invalid number", start_pos)
                 ELSE IF /\ is_negative /\ int.text = <<"0">>
                         /\ decimals.text = <<>> /\ ~exp.present
                 THEN LexerError("-0 is not allowed", start_pos)
                 ELSE With(parse_f64(is_negative, int.text, decimals.text, exp),
                           LAMBDA value :
                     IF ~value.ok THEN LexerError("number out of range", start_pos)
                     ELSE [ok |-> TRUE,
                           token |-> NumberToken(value.value,
                                         decimals.text # <<>> \/ exp.present, start_pos),
                           pos |-> exp.pos])))))

RECURSIVE ident_loop(_, _, _)
ident_loop(input, position, ident) ==
    IF peek(input, position) # EndOfInput /\ is_ident_char(peek(input, position))
    THEN ident_loop(input, position + 1, Append(ident, peek(input, position)))
    ELSE [text |-> ident, pos |-> position]

read_ident_or_keyword(input, start_pos) ==
    With(ident_loop(input, start_pos, <<>>), LAMBDA ident :
        [ok |-> TRUE,
         token |-> CASE ident.text = <<"t", "r", "u", "e">> -> Token("True", start_pos)
                     [] ident.text = <<"f", "a", "l", "s", "e">> -> Token("False", start_pos)
                     [] ident.text = <<"n", "u", "l", "l">> -> Token("Null", start_pos)
                     [] OTHER -> TextToken("Ident", ident.text, start_pos),
         pos |-> ident.pos])

\* One token of one character.
single(kind, start_pos) == [ok |-> TRUE, token |-> Token(kind, start_pos), pos |-> start_pos + 1]

\* A token that is `second` with the next character `follow` and `first`
\* (an error when first is "") without it.
double(input, start_pos, follow, second, first, message) ==
    IF peek(input, start_pos + 1) = follow
    THEN [ok |-> TRUE, token |-> Token(second, start_pos), pos |-> start_pos + 2]
    ELSE IF first = "" THEN LexerError(message, start_pos)
    ELSE single(first, start_pos)

\* next_token after skip_whitespace, with a character at start_pos
token_at(input, start_pos) ==
    With(peek(input, start_pos), LAMBDA ch :
        CASE ch = "$" -> single("Root", start_pos)
          [] ch = "@" -> single("At", start_pos)
          [] ch = "." -> double(input, start_pos, ".", "DotDot", "Dot", "")
          [] ch = "[" -> single("BracketOpen", start_pos)
          [] ch = "]" -> single("BracketClose", start_pos)
          [] ch = "(" -> single("ParenOpen", start_pos)
          [] ch = ")" -> single("ParenClose", start_pos)
          [] ch = "*" -> single("Wildcard", start_pos)
          [] ch = ":" -> single("Colon", start_pos)
          [] ch = "," -> single("Comma", start_pos)
          [] ch = "?" -> single("Question", start_pos)
          [] ch = "<" -> double(input, start_pos, "=", "LessEq", "LessThan", "")
          [] ch = ">" -> double(input, start_pos, "=", "GreaterEq", "GreaterThan", "")
          [] ch = "=" -> double(input, start_pos, "=", "Equal", "",
                                "expected '==' but found single '='")
          [] ch = "!" -> double(input, start_pos, "=", "NotEqual", "Not", "")
          [] ch = "&" -> double(input, start_pos, "&", "And", "",
                                "expected '&&' but found single '&'")
          [] ch = "|" -> double(input, start_pos, "|", "Or", "",
                                "expected '||' but found single '|'")
          [] ch = QUOTE \/ ch = DQUOTE -> read_string(input, start_pos)
          [] ch = "-" \/ is_ascii_digit(ch) -> read_number(input, start_pos)
          [] is_ident_start(ch) -> read_ident_or_keyword(input, start_pos)
          [] OTHER -> LexerError("unexpected character", start_pos))

\* next_token: Ok(None) is [ok |-> TRUE, some |-> FALSE]
next_token(input, position) ==
    With(skip_whitespace(input, position), LAMBDA start_pos :
        IF peek(input, start_pos) = EndOfInput THEN [ok |-> TRUE, some |-> FALSE]
        ELSE With(token_at(input, start_pos), LAMBDA got :
                 IF got.ok THEN [some |-> TRUE] @@ got ELSE got))

\* tokenize: while let Some(token) = self.next_token()? { tokens.push(token) }
RECURSIVE tokenize_loop(_, _, _)
tokenize_loop(input, position, tokens) ==
    With(next_token(input, position), LAMBDA next :
        IF ~next.ok THEN next
        ELSE IF ~next.some THEN [ok |-> TRUE, tokens |-> tokens]
        ELSE tokenize_loop(input, next.pos, Append(tokens, next.token)))

tokenize(input) == tokenize_loop(input, 0, <<>>)

-----------------------------------------------------------------------------
(* parser.rs *)

LOGICAL_TYPE_FUNCTIONS == {Chars_match, Chars_search}
COMPARISON_TYPE_FUNCTIONS == {Chars_count, Chars_length, Chars_value}

ParseError(message, position) == [ok |-> FALSE, message |-> message, position |-> position]

\* Ok(val), with the parser's index afterwards
Ok(val, index) == [ok |-> TRUE, val |-> val, index |-> index]

\* self.current_kind(): the kind of tokens[index], "None" past the end
current_kind(tokens, index) ==
    IF index < Len(tokens) THEN tokens[index + 1].kind ELSE "None"

current_position(tokens, index) ==
    IF index < Len(tokens) THEN tokens[index + 1].position
    ELSE IF tokens # <<>> THEN tokens[Len(tokens)].position + 1
    ELSE 0

keyword_to_property_name(kind) ==
    CASE kind = "True" -> Some(Chars_true)
      [] kind = "False" -> Some(Chars_false)
      [] kind = "Null" -> Some(Chars_null)
      [] OTHER -> None

\* RFC9535_MAX_INT = 2^53 - 1 = -RFC9535_MIN_INT, as its decimal digits
RFC9535_MAX_INT ==
    <<"9", "0", "0", "7", "1", "9", "9", "2", "5", "4", "7", "4", "0", "9", "9", "1">>

\* a < b for two digit strings without leading zeros
RECURSIVE DigitsLess(_, _)
DigitsLess(a, b) ==
    IF Len(a) # Len(b) THEN Len(a) < Len(b)
    ELSE IF a = <<>> THEN FALSE
    ELSE IF Head(a) # Head(b) THEN DigitValue(Head(a)) < DigitValue(Head(b))
    ELSE DigitsLess(Tail(a), Tail(b))

\* n == 0.0
is_zero(num) == \A i \in 1..Len(num.digits) : num.digits[i] = "0"

\* n < RFC9535_MIN_INT as f64 || n > RFC9535_MAX_INT as f64, for an n written
\* without fraction or exponent
out_of_range(num) == DigitsLess(RFC9535_MAX_INT, num.digits)

\* n as i64, for an n written without fraction or exponent
as_i64(num) ==
    IF num.neg THEN -from_str_radix(num.digits, 10) ELSE from_str_radix(num.digits, 10)

\* serde_json::Number::from_f64(n) as a Value: the normalised decimal
RECURSIVE normalised(_, _)
normalised(n, e) ==
    IF e > 0 THEN normalised(n * 10, e - 1)
    ELSE IF e < 0 /\ n % 10 = 0 THEN normalised(n \div 10, e + 1)
    ELSE [t |-> "num", n |-> n, e |-> e]

\* literal_to_value(lit) / CachedLiteral::new(lit).cached_value for a number
number_to_value(num) == normalised(as_i64(num), num.e)

\* Mutant: a number with a fraction or an exponent passes as an index.
try_parse_index_number_any_notation(tokens, index) ==
    IF current_kind(tokens, index) = "Number"
    THEN With(tokens[index + 1], LAMBDA tok :
             IF is_zero(tok.num) /\ tok.num.neg
             THEN ParseError("-0 is not valid for index selector", tok.position)
             ELSE IF out_of_range(tok.num)
             THEN ParseError("index out of range (must be between -(2^53-1) and 2^53-1)",
                             tok.position)
             ELSE Ok(Some(as_i64(tok.num)), index + 1))
    ELSE Ok(None, index)

\* try_parse_index_number: Ok(Some(n)), Ok(None) or Err
try_parse_index_number(tokens, index) ==
    IF current_kind(tokens, index) = "Number"
    THEN With(tokens[index + 1], LAMBDA tok :
             IF is_zero(tok.num) /\ tok.num.neg
             THEN ParseError("-0 is not valid for index selector", tok.position)
             ELSE IF tok.has_decimal_or_exp
             THEN ParseError("index must be an integer, not a decimal", tok.position)
             ELSE IF out_of_range(tok.num)
             THEN ParseError("index out of range (must be between -(2^53-1) and 2^53-1)",
                             tok.position)
             ELSE Ok(Some(as_i64(tok.num)), index + 1))
    ELSE Ok(None, index)

parse_index_or_slice(tokens, index) ==
    With(try_parse_index_number(tokens, index), LAMBDA start :
        IF ~start.ok THEN start
        ELSE IF current_kind(tokens, start.index) # "Colon"
        THEN IF start.val.some THEN Ok(Index(start.val.val), start.index)
             ELSE ParseError("expected number", current_position(tokens, start.index))
        ELSE With(try_parse_index_number(tokens, start.index + 1), LAMBDA end :
            IF ~end.ok THEN end
            ELSE IF current_kind(tokens, end.index) = "Colon"
            THEN With(try_parse_index_number(tokens, end.index + 1), LAMBDA step :
                     IF ~step.ok THEN step
                     ELSE Ok(Slice(start.val, end.val, step.val), step.index))
            ELSE Ok(Slice(start.val, end.val, None), end.index)))

\* Check if an expression is a singular query
is_singular_segments(segments) ==
    \A i \in 1..Len(segments) :
        /\ segments[i].kind = "Child"
        /\ Len(segments[i].selectors) = 1
        /\ segments[i].selectors[1].kind \in {"Name", "Index"}

\* Mutant: every path counts as a singular query.
is_singular_query_any_path(expr) ==
    expr.kind \in {"Path", "CurrentNode", "RootNode", "Literal", "FunctionCall"}

is_singular_query(expr) ==
    CASE expr.kind = "Path" -> is_singular_segments(expr.segments)
      [] expr.kind \in {"CurrentNode", "RootNode"} -> TRUE
      [] expr.kind = "Literal" -> TRUE
      [] expr.kind = "FunctionCall" -> TRUE
      [] OTHER -> FALSE

\* get_logical_type_function_name(expr).is_some()
get_logical_type_function_name(expr) ==
    expr.kind = "FunctionCall" /\ expr.name \in LOGICAL_TYPE_FUNCTIONS

is_nodes_type(expr) == expr.kind \in {"CurrentNode", "RootNode", "Path"}

\* Mutant: every function call counts as a value.
is_value_type_any_call(expr) ==
    CASE expr.kind = "Literal" -> TRUE
      [] expr.kind \in {"CurrentNode", "RootNode"} -> TRUE
      [] expr.kind = "Path" -> is_singular_segments(expr.segments)
      [] expr.kind = "FunctionCall" -> TRUE
      [] OTHER -> FALSE

is_value_type(expr) ==
    CASE expr.kind = "Literal" -> TRUE
      [] expr.kind \in {"CurrentNode", "RootNode"} -> TRUE
      [] expr.kind = "Path" -> is_singular_segments(expr.segments)
      [] expr.kind = "FunctionCall" -> expr.name \in COMPARISON_TYPE_FUNCTIONS
      [] OTHER -> FALSE

\* validate_function_params: Ok(()) is [ok |-> TRUE]
validate_function_params(name, args, pos) ==
    CASE name = Chars_count \/ name = Chars_value ->
             IF Len(args) # 1
             THEN ParseError("function requires exactly 1 argument", pos)
             ELSE IF ~is_nodes_type(args[1])
             THEN ParseError("function requires a query argument (NodesType)", pos)
             ELSE [ok |-> TRUE]
      [] name = Chars_length ->
             IF Len(args) # 1
             THEN ParseError("function requires exactly 1 argument", pos)
             ELSE IF ~is_value_type(args[1])
             THEN ParseError("function 'length' requires a singular query or literal argument",
                             pos)
             ELSE [ok |-> TRUE]
      [] name = Chars_match \/ name = Chars_search ->
             IF Len(args) # 2
             THEN ParseError("function requires exactly 2 arguments", pos)
             ELSE IF ~is_value_type(args[1])
             THEN ParseError("first argument must be a singular query or literal", pos)
             ELSE IF ~is_value_type(args[2])
             THEN ParseError("second argument must be a singular query or literal", pos)
             ELSE [ok |-> TRUE]
      [] OTHER -> ParseError("unknown function", pos)

\* Mutant: a literal passes as an operand of && and ||.
validate_logical_operand_any(expr, pos) == [ok |-> TRUE]

\* validate_logical_operand: Ok(()) is [ok |-> TRUE]
validate_logical_operand(expr, pos) ==
    IF expr.kind = "Literal"
    THEN ParseError("literal cannot be used as operand of logical operator", pos)
    ELSE [ok |-> TRUE]

RECURSIVE parse_expression(_, _)

\* Parse a bracket selector within a filter path
parse_filter_bracket_selector(tokens, index) ==
    CASE current_kind(tokens, index) = "Wildcard" -> Ok(Wildcard, index + 1)
      [] current_kind(tokens, index) = "String" ->
             Ok(Name(tokens[index + 1].text), index + 1)
      [] current_kind(tokens, index) \in {"Number", "Colon"} ->
             parse_index_or_slice(tokens, index)
      [] current_kind(tokens, index) = "Question" ->
             With(parse_expression(tokens, index + 1), LAMBDA expr :
                 IF ~expr.ok THEN expr
                 ELSE IF expr.val.kind = "Literal"
                 THEN ParseError("filter expression cannot be a literal alone",
                                 current_position(tokens, expr.index))
                 ELSE Ok(Filter(expr.val), expr.index))
      [] current_kind(tokens, index) = "None" ->
             ParseError("unexpected end of input in bracket selector",
                        current_position(tokens, index))
      [] OTHER -> ParseError("unexpected token in bracket selector",
                             current_position(tokens, index))

\* The selector loop of parse_filter_path_segment, which
\* parse_filter_selectors_after_dot repeats: `index` is just after the '['.
RECURSIVE filter_bracket_loop(_, _, _)
filter_bracket_loop(tokens, index, selectors) ==
    With(parse_filter_bracket_selector(tokens, index), LAMBDA selector :
        IF ~selector.ok THEN selector
        ELSE IF current_kind(tokens, selector.index) = "Comma"
        THEN filter_bracket_loop(tokens, selector.index + 1,
                                 Append(selectors, selector.val))
        ELSE IF current_kind(tokens, selector.index) = "BracketClose"
        THEN Ok(Append(selectors, selector.val), selector.index + 1)
        ELSE ParseError("expected ',' or ']'", current_position(tokens, selector.index)))

parse_filter_selectors_after_dot(tokens, index) ==
    IF keyword_to_property_name(current_kind(tokens, index)).some
    THEN Ok(<<Name(keyword_to_property_name(current_kind(tokens, index)).val)>>, index + 1)
    ELSE CASE current_kind(tokens, index) = "Ident" ->
                  Ok(<<Name(tokens[index + 1].text)>>, index + 1)
           [] current_kind(tokens, index) = "Wildcard" -> Ok(<<Wildcard>>, index + 1)
           [] current_kind(tokens, index) = "BracketOpen" ->
                  filter_bracket_loop(tokens, index + 1, <<>>)
           [] current_kind(tokens, index) = "None" ->
                  ParseError("expected identifier or wildcard after '.'",
                             current_position(tokens, index))
           [] OTHER -> ParseError("expected identifier or wildcard after '.', got",
                                  current_position(tokens, index))

\* Ok(make(selectors)) for the selectors just parsed, or their error
segment_of(selectors, make(_)) ==
    IF selectors.ok THEN Ok(make(selectors.val), selectors.index) ELSE selectors

\* Mutant: inside a filter path the token offsets are not compared.
parse_filter_path_segment_unchecked(tokens, index) ==
    CASE current_kind(tokens, index) = "DotDot" ->
             segment_of(parse_filter_selectors_after_dot(tokens, index + 1), Descendant)
      [] current_kind(tokens, index) = "Dot" ->
             segment_of(parse_filter_selectors_after_dot(tokens, index + 1), Child)
      [] current_kind(tokens, index) = "BracketOpen" ->
             segment_of(filter_bracket_loop(tokens, index + 1, <<>>), Child)
      [] OTHER -> ParseError("expected path segment", current_position(tokens, index))

parse_filter_path_segment(tokens, index) ==
    CASE current_kind(tokens, index) = "DotDot" ->
             IF current_position(tokens, index + 1) # current_position(tokens, index) + 2
             THEN ParseError("whitespace not allowed after '..'",
                             current_position(tokens, index) + 2)
             ELSE segment_of(parse_filter_selectors_after_dot(tokens, index + 1), Descendant)
      [] current_kind(tokens, index) = "Dot" ->
             IF current_position(tokens, index + 1) # current_position(tokens, index) + 1
             THEN ParseError("whitespace not allowed after '.'",
                             current_position(tokens, index) + 1)
             ELSE segment_of(parse_filter_selectors_after_dot(tokens, index + 1), Child)
      [] current_kind(tokens, index) = "BracketOpen" ->
             segment_of(filter_bracket_loop(tokens, index + 1, <<>>), Child)
      [] OTHER -> ParseError("expected path segment", current_position(tokens, index))

\* parse_path_or_node: the while loop over the segments
RECURSIVE path_loop(_, _, _)
path_loop(tokens, index, segments) ==
    IF current_kind(tokens, index) \in {"Dot", "DotDot", "BracketOpen"}
    THEN With(parse_filter_path_segment(tokens, index), LAMBDA segment :
             IF ~segment.ok THEN segment
             ELSE path_loop(tokens, segment.index, Append(segments, segment.val)))
    ELSE Ok(segments, index)

parse_path_or_node(start, tokens, index) ==
    IF current_kind(tokens, index) \notin {"Dot", "DotDot", "BracketOpen"}
    THEN Ok(start, index)
    ELSE With(path_loop(tokens, index, <<>>), LAMBDA segments :
             IF ~segments.ok THEN segments
             ELSE Ok(Path(start, segments.val), segments.index))

\* parse_function_call: the first argument and the while loop over the rest
RECURSIVE args_loop(_, _, _)
args_loop(tokens, index, args) ==
    With(parse_expression(tokens, index), LAMBDA arg :
        IF ~arg.ok THEN arg
        ELSE IF current_kind(tokens, arg.index) = "Comma"
        THEN args_loop(tokens, arg.index + 1, Append(args, arg.val))
        ELSE Ok(Append(args, arg.val), arg.index))

parse_function_call(name, tokens, index) ==
    IF current_kind(tokens, index) # "ParenOpen"
    THEN ParseError("expected '(' after function name", current_position(tokens, index))
    ELSE With(IF current_kind(tokens, index + 1) # "ParenClose"
              THEN args_loop(tokens, index + 1, <<>>)
              ELSE Ok(<<>>, index + 1),
              LAMBDA args :
        IF ~args.ok THEN args
        ELSE IF current_kind(tokens, args.index) # "ParenClose"
        THEN ParseError("expected ')' after function arguments",
                        current_position(tokens, args.index))
        ELSE IF ~validate_function_params(name, args.val,
                                          current_position(tokens, index)).ok
        THEN validate_function_params(name, args.val, current_position(tokens, index))
        ELSE Ok(FunctionCall(name, args.val), args.index + 1))

\* The Ident arm of parse_atom
parse_atom_ident(tokens, index) ==
    IF current_kind(tokens, index + 1) = "ParenOpen"
    THEN IF current_position(tokens, index + 1)
                # tokens[index + 1].position + ByteLen(tokens[index + 1].text)
         THEN ParseError("whitespace not allowed between function name and '('",
                         tokens[index + 1].position + ByteLen(tokens[index + 1].text))
         ELSE parse_function_call(tokens[index + 1].text, tokens, index + 1)
    ELSE ParseError("unexpected identifier in expression",
                    current_position(tokens, index + 1))

parse_atom(tokens, index) ==
    CASE current_kind(tokens, index) = "At" ->
             parse_path_or_node(CurrentNode, tokens, index + 1)
      [] current_kind(tokens, index) = "Root" ->
             parse_path_or_node(RootNode, tokens, index + 1)
      [] current_kind(tokens, index) = "True" -> Ok(Literal(Bool(TRUE)), index + 1)
      [] current_kind(tokens, index) = "False" -> Ok(Literal(Bool(FALSE)), index + 1)
      [] current_kind(tokens, index) = "Null" -> Ok(Literal(Null), index + 1)
      [] current_kind(tokens, index) = "Number" ->
             Ok(Literal(number_to_value(tokens[index + 1].num)), index + 1)
      [] current_kind(tokens, index) = "String" ->
             Ok(Literal(Str(tokens[index + 1].text)), index + 1)
      [] current_kind(tokens, index) = "Ident" -> parse_atom_ident(tokens, index)
      [] current_kind(tokens, index) = "ParenOpen" ->
             With(parse_expression(tokens, index + 1), LAMBDA expr :
                 IF ~expr.ok THEN expr
                 ELSE IF current_kind(tokens, expr.index) # "ParenClose"
                 THEN ParseError("expected ')' after expression",
                                 current_position(tokens, expr.index))
                 ELSE Ok(expr.val, expr.index + 1))
      [] current_kind(tokens, index) = "None" ->
             ParseError("unexpected end of input in expression",
                        current_position(tokens, index))
      [] OTHER -> ParseError("unexpected token in expression",
                             current_position(tokens, index))

RECURSIVE parse_unary_expression(_, _)
parse_unary_expression(tokens, index) ==
    IF current_kind(tokens, index) = "Not"
    THEN With(parse_unary_expression(tokens, index + 1), LAMBDA expr :
             IF ~expr.ok THEN expr ELSE Ok(Not(expr.val), expr.index))
    ELSE parse_atom(tokens, index)

\* The CompOp a token kind stands for, None for any other token
comp_op(kind) ==
    CASE kind = "Equal" -> Some("Eq")
      [] kind = "NotEqual" -> Some("Ne")
      [] kind = "LessThan" -> Some("Lt")
      [] kind = "GreaterThan" -> Some("Gt")
      [] kind = "LessEq" -> Some("Le")
      [] kind = "GreaterEq" -> Some("Ge")
      [] OTHER -> None

parse_comparison_expression(tokens, index) ==
    With(parse_unary_expression(tokens, index), LAMBDA left :
        IF ~left.ok THEN left
        ELSE IF ~comp_op(current_kind(tokens, left.index)).some THEN left
        ELSE With(parse_unary_expression(tokens, left.index + 1), LAMBDA right :
            IF ~right.ok THEN right
            ELSE IF ~is_singular_query(left.val) \/ ~is_singular_query(right.val)
            THEN ParseError("non-singular query not allowed in comparison",
                            current_position(tokens, left.index))
            ELSE IF \/ get_logical_type_function_name(left.val)
                    \/ get_logical_type_function_name(right.val)
            THEN ParseError("function returns LogicalType and cannot be compared",
                            current_position(tokens, left.index))
            ELSE Ok(Comparison(left.val, comp_op(current_kind(tokens, left.index)).val,
                               right.val),
                    right.index)))

\* One round of the while loop of parse_and_expression / parse_or_expression,
\* once the right operand is parsed: the operands are validated, left first.
logical_step(left, op, right, op_pos) ==
    IF ~right.ok THEN right
    ELSE IF ~validate_logical_operand(left, op_pos).ok
    THEN validate_logical_operand(left, op_pos)
    ELSE IF ~validate_logical_operand(right.val, op_pos).ok
    THEN validate_logical_operand(right.val, op_pos)
    ELSE Ok(Logical(left, op, right.val), right.index)

RECURSIVE and_loop(_, _, _)
and_loop(tokens, index, left) ==
    IF current_kind(tokens, index) # "And" THEN Ok(left, index)
    ELSE With(logical_step(left, "And", parse_comparison_expression(tokens, index + 1),
                           current_position(tokens, index)),
              LAMBDA step : IF ~step.ok THEN step
                            ELSE and_loop(tokens, step.index, step.val))

parse_and_expression(tokens, index) ==
    With(parse_comparison_expression(tokens, index), LAMBDA left :
        IF ~left.ok THEN left ELSE and_loop(tokens, left.index, left.val))

\* Mutant: the right operand of || is a comparison expression.
RECURSIVE or_loop_comparisons(_, _, _)
or_loop_comparisons(tokens, index, left) ==
    IF current_kind(tokens, index) # "Or" THEN Ok(left, index)
    ELSE With(logical_step(left, "Or", parse_comparison_expression(tokens, index + 1),
                           current_position(tokens, index)),
              LAMBDA step : IF ~step.ok THEN step
                            ELSE or_loop_comparisons(tokens, step.index, step.val))

RECURSIVE or_loop(_, _, _)
or_loop(tokens, index, left) ==
    IF current_kind(tokens, index) # "Or" THEN Ok(left, index)
    ELSE With(logical_step(left, "Or", parse_and_expression(tokens, index + 1),
                           current_position(tokens, index)),
              LAMBDA step : IF ~step.ok THEN step
                            ELSE or_loop(tokens, step.index, step.val))

parse_or_expression(tokens, index) ==
    With(parse_and_expression(tokens, index), LAMBDA left :
        IF ~left.ok THEN left ELSE or_loop(tokens, left.index, left.val))

parse_expression(tokens, index) == parse_or_expression(tokens, index)

parse_selector(tokens, index) ==
    CASE current_kind(tokens, index) = "Wildcard" -> Ok(Wildcard, index + 1)
      [] current_kind(tokens, index) = "String" ->
             Ok(Name(tokens[index + 1].text), index + 1)
      [] current_kind(tokens, index) \in {"Number", "Colon"} ->
             parse_index_or_slice(tokens, index)
      [] current_kind(tokens, index) = "Question" ->
             With(parse_expression(tokens, index + 1), LAMBDA expr :
                 IF ~expr.ok THEN expr
                 ELSE IF expr.val.kind = "Literal"
                 THEN ParseError("filter expression cannot be a literal alone",
                                 current_position(tokens, expr.index))
                 ELSE IF /\ expr.val.kind = "FunctionCall"
                         /\ expr.val.name \in COMPARISON_TYPE_FUNCTIONS
                 THEN ParseError("function returns a value that must be compared",
                                 current_position(tokens, expr.index))
                 ELSE Ok(Filter(expr.val), expr.index))
      [] current_kind(tokens, index) = "None" ->
             ParseError("unexpected end of input in selector",
                        current_position(tokens, index))
      [] OTHER -> ParseError("unexpected token in selector",
                             current_position(tokens, index))

\* parse_bracket_selectors: the loop, `index` being just after the '['
RECURSIVE bracket_loop(_, _, _)
bracket_loop(tokens, index, selectors) ==
    With(parse_selector(tokens, index), LAMBDA selector :
        IF ~selector.ok THEN selector
        ELSE CASE current_kind(tokens, selector.index) = "Comma" ->
                      bracket_loop(tokens, selector.index + 1,
                                   Append(selectors, selector.val))
               [] current_kind(tokens, selector.index) = "BracketClose" ->
                      Ok(Append(selectors, selector.val), selector.index + 1)
               [] current_kind(tokens, selector.index) = "None" ->
                      ParseError("unclosed bracket",
                                 current_position(tokens, selector.index))
               [] OTHER -> ParseError("expected ',' or ']', got",
                                      current_position(tokens, selector.index)))

parse_bracket_selectors(tokens, index) ==
    IF current_kind(tokens, index) # "BracketOpen"
    THEN ParseError("expected '['", current_position(tokens, index))
    ELSE bracket_loop(tokens, index + 1, <<>>)

parse_selectors_after_dot(tokens, index) ==
    IF keyword_to_property_name(current_kind(tokens, index)).some
    THEN Ok(<<Name(keyword_to_property_name(current_kind(tokens, index)).val)>>, index + 1)
    ELSE CASE current_kind(tokens, index) = "Ident" ->
                  Ok(<<Name(tokens[index + 1].text)>>, index + 1)
           [] current_kind(tokens, index) = "Wildcard" -> Ok(<<Wildcard>>, index + 1)
           [] current_kind(tokens, index) = "BracketOpen" ->
                  parse_bracket_selectors(tokens, index)
           [] current_kind(tokens, index) = "None" ->
                  ParseError("expected identifier or wildcard after '.'",
                             current_position(tokens, index))
           [] OTHER -> ParseError("expected identifier or wildcard after '.', got",
                                  current_position(tokens, index))

parse_segment(tokens, index) ==
    CASE current_kind(tokens, index) = "DotDot" ->
             IF current_position(tokens, index + 1) # current_position(tokens, index) + 2
             THEN ParseError("whitespace not allowed after '..'",
                             current_position(tokens, index) + 2)
             ELSE segment_of(parse_selectors_after_dot(tokens, index + 1), Descendant)
      [] current_kind(tokens, index) = "Dot" ->
             IF current_position(tokens, index + 1) # current_position(tokens, index) + 1
             THEN ParseError("whitespace not allowed after '.'",
                             current_position(tokens, index) + 1)
             ELSE segment_of(parse_selectors_after_dot(tokens, index + 1), Child)
      [] current_kind(tokens, index) = "BracketOpen" ->
             segment_of(parse_bracket_selectors(tokens, index), Child)
      [] current_kind(tokens, index) = "None" ->
             ParseError("unexpected end of input", current_position(tokens, index))
      [] OTHER -> ParseError("unexpected token", current_position(tokens, index))

\* parse_jsonpath: while self.current().is_some() { segments.push(parse_segment()?) }
RECURSIVE jsonpath_loop(_, _, _)
jsonpath_loop(tokens, index, segments) ==
    IF index >= Len(tokens) THEN Ok(JsonPath(segments), index)
    ELSE With(parse_segment(tokens, index), LAMBDA segment :
             IF ~segment.ok THEN segment
             ELSE jsonpath_loop(tokens, segment.index, Append(segments, segment.val)))

parse_jsonpath(tokens) ==
    IF current_kind(tokens, 0) # "Root"
    THEN ParseError("JSONPath must start with '$'", 0)
    ELSE jsonpath_loop(tokens, 1, <<>>)

\* Mutant: the end of the input is looked at before its start.
parse_trailing_first(input) ==
    IF input # <<>> /\ is_whitespace(input[Len(input)])
    THEN ParseError("trailing whitespace is not allowed", ByteLen(input) - 1)
    ELSE IF input # <<>> /\ is_whitespace(input[1])
    THEN ParseError("leading whitespace is not allowed", 0)
    ELSE With(tokenize(input), LAMBDA tokens :
             IF ~tokens.ok THEN tokens ELSE parse_jsonpath(tokens.tokens))

\* Parser::parse(input): Ok(JsonPath) is [ok |-> TRUE, val |-> the JsonPath, ..]
parse(input) ==
    IF input # <<>> /\ is_whitespace(input[1])
    THEN ParseError("leading whitespace is not allowed", 0)
    ELSE IF input # <<>> /\ is_whitespace(input[Len(input)])
    THEN ParseError("trailing whitespace is not allowed", ByteLen(input) - 1)
    ELSE With(tokenize(input), LAMBDA tokens :
             IF ~tokens.ok THEN tokens ELSE parse_jsonpath(tokens.tokens))

\* impl Display for ParseError
Display(e) == "at position " \o ToString(e.position) \o ", " \o e.message

\* lib.rs impl From<parser::ParseError> for Error
Error_from(e) == [ok |-> FALSE, message |-> "parse error: " \o Display(e)]

\* A panic that unwinds out of the call
Panicked == [ok |-> FALSE, panicked |-> TRUE]

\* Mutant: a query that selects nothing is an error.
query_err_on_empty(jsonpath, json, c) ==
    With(parse(jsonpath), LAMBDA parsed :
        IF ~parsed.ok THEN [r |-> Error_from(parsed), c |-> c]
        ELSE With(evaluate(parsed.val, json, c), LAMBDA results :
                 [r |-> IF results.r = <<>>
                        THEN Error_from(ParseError("no match", 0))
                        ELSE [ok |-> TRUE, val |-> Cloned(json, results.r)],
                  c |-> results.c]))

\* lib.rs query(jsonpath, json): Ok(values) or the parse error
query(jsonpath, json, c) ==
    With(parse(jsonpath), LAMBDA parsed :
        IF ~parsed.ok THEN [r |-> Error_from(parsed), c |-> c]
        ELSE With(evaluate(parsed.val, json, c), LAMBDA results :
                 [r |-> IF \E i \in 1..Len(results.r) : results.r[i] = PanicNode
                        THEN Panicked
                        ELSE [ok |-> TRUE, val |-> Cloned(json, results.r)],
                  c |-> results.c]))

-----------------------------------------------------------------------------
(* Documents and queries the evaluator is run on *)

MaxLen == 2      \* longest container built from Elems
MaxNodes == 4    \* largest tree, in nodes

KeyA == <<"a">>
KeyB == <<"b">>
Keys == <<KeyA, KeyB, <<"c">>, <<"x">>, <<"a", "b">>, <<"b", "a">>>>

\* The object holding the given values under the keys a, b, c, .. in order.
AsObj(kids) == Obj([i \in 1..Len(kids) |-> KV(Keys[i], kids[i])])

SeqsUpTo(S, n) == UNION {[1..k -> S] : k \in 0..n}

\* Children for the filter documents: objects with key a holding each kind
\* of value, objects without key a, and values that are not objects.
Elems ==
    { Obj(<<KV(KeyA, Null)>>), Obj(<<KV(KeyA, Bool(FALSE))>>), Obj(<<KV(KeyA, Num(0))>>),
      Obj(<<KV(KeyA, Str(<<>>))>>), Obj(<<KV(KeyA, Arr(<<>>))>>),
      Obj(<<KV(KeyA, Obj(<<>>))>>), Obj(<<KV(KeyB, Num(2)), KV(KeyA, Num(1))>>),
      Obj(<<KV(KeyB, Null)>>), Obj(<<>>), Null, Arr(<<Num(1)>>) }

FlatDocs ==
    {Arr(kids) : kids \in SeqsUpTo(Elems, MaxLen)}
        \cup {AsObj(kids) : kids \in SeqsUpTo(Elems, MaxLen)}

\* Every tree of n nodes whose containers are arrays or objects.
RECURSIVE TreesOfSize(_)
RECURSIVE ForestsOfSize(_)
TreesOfSize(n) ==
    (IF n = 1 THEN {Num(1)} ELSE {})
        \cup UNION {{Arr(f), AsObj(f)} : f \in ForestsOfSize(n - 1)}

ForestsOfSize(n) ==
    IF n = 0 THEN {<<>>}
    ELSE UNION {{<<t>> \o f : t \in TreesOfSize(k), f \in ForestsOfSize(n - k)} : k \in 1..n}

TreeDocs == UNION {TreesOfSize(n) : n \in 1..MaxNodes}

Docs == FlatDocs \cup TreeDocs

AtA == Path(CurrentNode, <<Child(<<Name(KeyA)>>)>>)
FilterQuery(e) == JsonPath(<<Child(<<Filter(e)>>)>>)

QEqNull == FilterQuery(Comparison(AtA, "Eq", Literal(Null)))    \* $[?@.a == null]
QNeNull == FilterQuery(Comparison(AtA, "Ne", Literal(Null)))    \* $[?@.a != null]
QExists == FilterQuery(AtA)                                     \* $[?@.a]
QNotExists == FilterQuery(Not(AtA))                             \* $[?!@.a]
QCurrent == FilterQuery(CurrentNode)                            \* $[?@]
QDescWild == JsonPath(<<Descendant(<<Wildcard>>)>>)             \* $..*
QWild == JsonPath(<<Child(<<Wildcard>>)>>)                      \* $[*]
QSlice(start, end, step) == JsonPath(<<Child(<<Slice(start, end, step)>>)>>)
QStep1 == QSlice(None, None, Some(1))                           \* $[::1]
QStepMinus1 == QSlice(None, None, Some(-1))                     \* $[::-1]
QPrefix(n) == QSlice(Some(0), Some(n), None)                    \* $[0:n]

\* $, $[*][?@], $..[?@.a], $.a, $[0], $[-1], $..a, $..[0], $[*].a, $[1:],
\* $[-1:0:-1], $[0,0], $[?@[?@.a]], $[?@.a == $[0].a], $[?count(@.*) == 1],
\* $[?value(@.*) == 1]
OtherQueries ==
    << JsonPath(<<>>),
       JsonPath(<<Child(<<Wildcard>>), Child(<<Filter(CurrentNode)>>)>>),
       JsonPath(<<Descendant(<<Filter(AtA)>>)>>),
       JsonPath(<<Child(<<Name(KeyA)>>)>>),
       JsonPath(<<Child(<<Index(0)>>)>>),
       JsonPath(<<Child(<<Index(-1)>>)>>),
       JsonPath(<<Descendant(<<Name(KeyA)>>)>>),
       JsonPath(<<Descendant(<<Index(0)>>)>>),
       JsonPath(<<Child(<<Wildcard>>), Child(<<Name(KeyA)>>)>>),
       QSlice(Some(1), None, None),
       QSlice(Some(-1), Some(0), Some(-1)),
       JsonPath(<<Child(<<Index(0), Index(0)>>)>>),
       FilterQuery(Path(CurrentNode, <<Child(<<Filter(AtA)>>)>>)),
       FilterQuery(Comparison(AtA, "Eq",
           Path(RootNode, <<Child(<<Index(0)>>), Child(<<Name(KeyA)>>)>>))),
       FilterQuery(Comparison(
           FunctionCall(Chars_count, <<Path(CurrentNode, <<Child(<<Wildcard>>)>>)>>),
           "Eq", Literal(Num(1)))),
       FilterQuery(Comparison(
           FunctionCall(Chars_value, <<Path(CurrentNode, <<Child(<<Wildcard>>)>>)>>),
           "Eq", Literal(Num(1)))) >>

NamedQueries ==
    <<QEqNull, QNeNull, QExists, QNotExists, QCurrent, QDescWild, QWild, QStep1,
      QStepMinus1>>

\* $[i] for every i of -MaxIndex..MaxIndex
MaxIndex == 4
QIndex(i) == JsonPath(<<Child(<<Index(i)>>)>>)
IndexQueries == [k \in 1..(2 * MaxIndex + 1) |-> QIndex(k - MaxIndex - 1)]

\* $[*,0], $[0,*], $[*,*], $[-1,0], $[0:2,0], $['a','b','a'], $[*][0,0],
\* $[*][*,0], $[*]['a','a'], $[*,0][*]
MultiQueries ==
    << JsonPath(<<Child(<<Wildcard, Index(0)>>)>>),
       JsonPath(<<Child(<<Index(0), Wildcard>>)>>),
       JsonPath(<<Child(<<Wildcard, Wildcard>>)>>),
       JsonPath(<<Child(<<Index(-1), Index(0)>>)>>),
       JsonPath(<<Child(<<Slice(Some(0), Some(2), None), Index(0)>>)>>),
       JsonPath(<<Child(<<Name(KeyA), Name(KeyB), Name(KeyA)>>)>>),
       JsonPath(<<Child(<<Wildcard>>), Child(<<Index(0), Index(0)>>)>>),
       JsonPath(<<Child(<<Wildcard>>), Child(<<Wildcard, Index(0)>>)>>),
       JsonPath(<<Child(<<Wildcard>>), Child(<<Name(KeyA), Name(KeyA)>>)>>),
       JsonPath(<<Child(<<Wildcard, Index(0)>>), Child(<<Wildcard>>)>>) >>

Queries ==
    NamedQueries \o OtherQueries \o [n \in 1..(MaxLen + 2) |-> QPrefix(n - 1)]
        \o IndexQueries \o MultiQueries

-----------------------------------------------------------------------------
(* The evaluator: a parsed JsonPath applied to a document *)

Range(seq) == {seq[i] : i \in 1..Len(seq)}

\* No query string is in play.
NoInput == source = <<>> /\ outcome = [ok |-> TRUE]

\* No comparison is in play.
NoOperands == lhs = Nothing /\ rhs = Nothing /\ verdicts = {}

\* A JsonPath has been parsed and a document loaded; nothing is evaluated yet.
Init ==
    /\ in_path = <<>>
    /\ work = <<>>
    /\ doc \in Docs
    /\ path \in Range(Queries)
    /\ nodes = <<>>
    /\ cache = EmptyCache
    /\ pc = "idle"
    /\ NoInput /\ NoOperands

\* JsonPath::query_ref(&self, json) = eval::evaluate(self, json)
Evaluate ==
    /\ nodes' = evaluate(path, doc, cache).r
    /\ cache' = evaluate(path, doc, cache).c
    /\ pc' = "evaluate"
    /\ UNCHANGED <<doc, path, source, outcome, lhs, rhs, verdicts, work, in_path>>

Next == Evaluate

Spec == Init /\ [][Next]_vars

-----------------------------------------------------------------------------
(* Reference definitions the claims are stated with *)

HasKey(v, key) == v.t = "obj" /\ MapGet(v.o, key) # 0
Member(v, key) == v.o[MapGet(v.o, key)].v

IsContainer(v) == v.t = "arr" \/ v.t = "obj"
IsArrayOfObjects(v) == v.t = "arr" /\ \A i \in 1..Len(v.a) : v.a[i].t = "obj"

\* The references to the children of the root that satisfy Test, in document order.
ChildrenWhere(root, Test(_)) ==
    LET kids == Children(root)
        Keep(ref) == Test(kids[ref[1]])
    IN  SelectSeq([i \in 1..Len(kids) |-> <<i>>], Keep)

\* The nodes of the subtree at `node` in pre-order: the node, then the
\* pre-order of each child's subtree, children in document order.
RECURSIVE Preorder(_, _)
RECURSIVE PreorderFrom(_, _, _)
Preorder(root, node) == <<node>> \o PreorderFrom(root, node, 1)
PreorderFrom(root, node, i) ==
    IF i > Len(Children(ValueAt(root, node))) THEN <<>>
    ELSE Preorder(root, Append(node, i)) \o PreorderFrom(root, node, i + 1)

\* The children of each of the given nodes, parent by parent.
RECURSIVE ChildrenOfEach(_, _)
ChildrenOfEach(root, parents) ==
    IF parents = <<>> THEN <<>>
    ELSE [i \in 1..Len(Children(ValueAt(root, Head(parents)))) |-> Append(Head(parents), i)]
             \o ChildrenOfEach(root, Tail(parents))

Occurrences(seq, x) == Cardinality({i \in 1..Len(seq) : seq[i] = x})

RECURSIVE IsNodeOf(_, _)
IsNodeOf(root, ref) ==
    \/ ref = <<>>
    \/ /\ Head(ref) \in 1..Len(Children(root))
       /\ IsNodeOf(Children(root)[Head(ref)], Tail(ref))

Evaluated == pc = "evaluate"

-----------------------------------------------------------------------------
(* Claims *)

\* C2: on an array of objects, $[?@.a == null] selects exactly the elements
\* that have key a with value null, and $[?@.a != null] exactly the elements
\* that lack key a or hold a non-null value under it, in document order.
C2_NullVersusMissing ==
    (Evaluated /\ IsArrayOfObjects(doc)) =>
        /\ path = QEqNull =>
               nodes = ChildrenWhere(doc,
                           LAMBDA v : HasKey(v, KeyA) /\ Member(v, KeyA).t = "null")
        /\ path = QNeNull =>
               nodes = ChildrenWhere(doc,
                           LAMBDA v : ~HasKey(v, KeyA) \/ Member(v, KeyA).t # "null")

\* An array holding a null a, a non-null a and an element without a, under != null.
C2_Witness ==
    /\ Evaluated /\ IsArrayOfObjects(doc) /\ path = QNeNull
    /\ \E i \in 1..Len(doc.a) : ~HasKey(doc.a[i], KeyA) /\ <<i>> \in Range(nodes)
    /\ \E i \in 1..Len(doc.a) :
           HasKey(doc.a[i], KeyA) /\ Member(doc.a[i], KeyA).t = "null"
               /\ <<i>> \notin Range(nodes)

\* C3: in a container, [?@.a] selects exactly the children that are objects
\* having key a, whatever its value; [?!@.a] selects exactly the other
\* children; [?@] selects every child.
C3_ExistenceTest ==
    (Evaluated /\ IsContainer(doc)) =>
        /\ path = QExists => nodes = ChildrenWhere(doc, LAMBDA v : HasKey(v, KeyA))
        /\ path = QNotExists => nodes = ChildrenWhere(doc, LAMBDA v : ~HasKey(v, KeyA))
        /\ path = QCurrent => nodes = ChildrenWhere(doc, LAMBDA v : TRUE)

\* [?@.a] has selected a child whose a is falsy as a value.
C3_Witness ==
    /\ Evaluated /\ IsContainer(doc) /\ path = QExists
    /\ \E i \in 1..Len(nodes) :
           ~value_is_truthy(Member(ValueAt(doc, nodes[i]), KeyA))
    /\ Len(nodes) < Len(Children(doc))

\* C4 as stated: $..* yields the non-root nodes of the document in pre-order.
C4_PreorderAsStated ==
    (Evaluated /\ path = QDescWild) => nodes = Tail(Preorder(doc, <<>>))

\* C4 as it holds: $..* yields, for each node of the document in pre-order
\* (the root first), that node's children in document order; every non-root
\* node appears exactly once.
C4_ChildrenByParentInPreorder ==
    (Evaluated /\ path = QDescWild) =>
        /\ nodes = ChildrenOfEach(doc, Preorder(doc, <<>>))
        /\ \A i \in 1..Len(nodes) : nodes[i] # <<>> /\ IsNodeOf(doc, nodes[i])
        /\ \A ref \in Range(Preorder(doc, <<>>)) :
               ref # <<>> => Occurrences(nodes, ref) = 1

\* A document where a first child has a child of its own and a sibling.
C4_Witness ==
    /\ Evaluated /\ path = QDescWild
    /\ Len(nodes) >= 3
    /\ <<1, 1>> \in Range(nodes) /\ <<2>> \in Range(nodes)

\* C5: on an array of length n, $[::1], $[0:n] and $[*] all yield the
\* elements in index order, and $[::-1] yields them in reverse order.
C5_SliceRoundTrip ==
    (Evaluated /\ doc.t = "arr") =>
        LET all == [i \in 1..Len(doc.a) |-> <<i>>] IN
        /\ path \in {QStep1, QPrefix(Len(doc.a)), QWild} => nodes = all
        /\ path = QStepMinus1 => nodes = Reverse(all)

\* $[::-1] on an array of at least two elements.
C5_Witness ==
    /\ Evaluated /\ doc.t = "arr" /\ path = QStepMinus1
    /\ Len(doc.a) >= 2 /\ nodes[1] = <<Len(doc.a)>> /\ nodes[Len(nodes)] = <<1>>

\* C7: every node evaluate returns is a position inside the document.
C7_NodesAreInsideDocument ==
    Evaluated => \A i \in 1..Len(nodes) : IsNodeOf(doc, nodes[i])

\* A filter below the root has selected a node two levels down.
C7_Witness ==
    /\ Evaluated
    /\ path = JsonPath(<<Child(<<Wildcard>>), Child(<<Filter(CurrentNode)>>)>>)
    /\ \E i \in 1..Len(nodes) : Len(nodes[i]) = 2 /\ nodes[i][2] > Len(Children(doc))


\* The element of an array of length n that the index i stands for: the
\* position from the start, or from the end when i is negative
IndexedChild(i, n) ==
    IF 0 <= i /\ i < n THEN <<i + 1>>
    ELSE IF i < 0 /\ n + i >= 0 THEN <<n + i + 1>>
    ELSE <<>>

\* C18: $[i] on an array of length n yields the element at position i when
\* 0 <= i < n, the element at position n + i when i < 0 and n + i >= 0, and
\* nothing otherwise; on an object or a scalar it yields nothing.
C18_IndexSelectsOneElement ==
    \A i \in -MaxIndex..MaxIndex :
        (Evaluated /\ path = QIndex(i)) =>
            nodes = IF doc.t = "arr"
                    THEN IF IndexedChild(i, Len(doc.a)) = <<>> THEN <<>>
                         ELSE <<IndexedChild(i, Len(doc.a))>>
                    ELSE <<>>

\* $[-3] has selected the first element of an array of three.
C18_Witness ==
    /\ Evaluated
    /\ path = QIndex(-3)
    /\ doc.t = "arr" /\ Len(doc.a) = 3
    /\ nodes = <<<<1>>>>

\* The sequences of a sequence, one after the other
RECURSIVE Concat(_)
Concat(seqs) == IF seqs = <<>> THEN <<>> ELSE Head(seqs) \o Concat(Tail(seqs))

\* What the selectors select from one node, selector by selector
SelectedFrom(selectors, node, root) ==
    Concat([j \in 1..Len(selectors) |->
                evaluate_selector(selectors[j], node, root, EmptyCache).r])

\* The query without its last segment, and the nodes it yields
Front(jsonpath) == JsonPath(SubSeq(jsonpath.segments, 1, Len(jsonpath.segments) - 1))
InputNodes(jsonpath, root) == evaluate(Front(jsonpath), root, EmptyCache).r

EndsWithChild(jsonpath) ==
    jsonpath.segments # <<>> /\ jsonpath.segments[Len(jsonpath.segments)].kind = "Child"

\* C20: the result of a child segment is, for each input node in order, what
\* each selector in order selects from it, with nothing removed: $[0,0] and
\* $[*,0] yield one entry per selection.
C20_ChildSegmentConcatenates ==
    Evaluated =>
        /\ EndsWithChild(path) =>
               nodes = Concat([i \in 1..Len(InputNodes(path, doc)) |->
                                   SelectedFrom(path.segments[Len(path.segments)].selectors,
                                                InputNodes(path, doc)[i], doc)])
        /\ (doc.t = "arr" /\ doc.a # <<>>) =>
               /\ path = JsonPath(<<Child(<<Index(0), Index(0)>>)>>) => nodes = << <<1>>, <<1>> >>
               /\ path = JsonPath(<<Child(<<Wildcard, Index(0)>>)>>)
                      => nodes = ChildRefs(doc, <<>>) \o << <<1>> >>

\* $[*,0] has yielded the first of two elements twice.
C20_Witness ==
    /\ Evaluated
    /\ path = JsonPath(<<Child(<<Wildcard, Index(0)>>)>>)
    /\ doc.t = "arr" /\ Len(doc.a) = 2
    /\ nodes = << <<1>>, <<2>>, <<1>> >>

-----------------------------------------------------------------------------
(* Comparisons on their own: compare_values applied to a pair of operands *)

Half == [t |-> "num", n |-> 5, e |-> -1]

OperandValues ==
    { Null, Bool(TRUE), Bool(FALSE), Num(0), Num(1), Half, Str(<<>>), Str(<<"a">>),
      Arr(<<>>), Arr(<<Num(1)>>), Obj(<<>>), Obj(<<KV(KeyA, Null)>>) }

\* What evaluate_expr can hand to compare_values: a value, a node list, Nothing.
Operands ==
    { ValueResult(v) : v \in OperandValues }
    \cup { NodeListResult(<<>>), Nothing }
    \cup { NodeListResult(<<v>>) : v \in {Null, Num(1), Str(<<"a">>)} }
    \cup { NodeListResult(<<Num(1), Num(1)>>), NodeListResult(<<Null, Num(0)>>) }

InitCompare ==
    /\ in_path = <<>>
    /\ work = <<>>
    /\ lhs \in Operands
    /\ rhs \in Operands
    /\ verdicts = {}
    /\ doc = Null /\ path = JsonPath(<<>>) /\ nodes = <<>> /\ cache = EmptyCache
    /\ NoInput
    /\ pc = "idle"

\* One comparison of the two operands under op.
Compare(op) ==
    /\ verdicts' = verdicts \cup {[op |-> op, result |-> compare_values(lhs, op, rhs)]}
    /\ pc' = "compare_values"
    /\ UNCHANGED <<doc, path, nodes, cache, source, outcome, lhs, rhs, work, in_path>>

NextCompare == \E op \in CompOp : Compare(op)

SpecCompare == InitCompare /\ [][NextCompare]_vars

Absent(res) == to_value(res) = <<>>

Verdict(op) == [op |-> op, result |-> TRUE] \in verdicts

Asked(op) == \E v \in verdicts : v.op = op

\* C1: for singular operands, once both == and != have been asked, exactly one
\* of the two is true; this covers one or both operands being absent.
C1_ExactlyOneOfEqNe ==
    (is_singular(lhs) /\ is_singular(rhs) /\ Asked("Eq") /\ Asked("Ne"))
        => (Verdict("Eq") <=> ~Verdict("Ne"))

\* == and != have both been asked of an absent operand and a present one.
C1_Witness ==
    /\ Asked("Eq") /\ Asked("Ne")
    /\ is_singular(lhs) /\ is_singular(rhs)
    /\ Absent(lhs) /\ ~Absent(rhs)
    /\ Verdict("Ne")


\* Both operands are present and are two nulls, two booleans, two arrays or
\* two objects.
BothUnordered ==
    /\ is_singular(lhs) /\ is_singular(rhs)
    /\ ~Absent(lhs) /\ ~Absent(rhs)
    /\ to_value(lhs)[1].t = to_value(rhs)[1].t
    /\ to_value(lhs)[1].t \in {"null", "bool", "arr", "obj"}

\* C16: for two nulls, two booleans, two arrays or two objects, < and > are
\* false, and <= and >= are true exactly when the two values are equal.
C16_UnorderedTypesOnlyEquality ==
    BothUnordered =>
        \A v \in verdicts :
            /\ v.op \in {"Lt", "Gt"} => ~v.result
            /\ v.op \in {"Le", "Ge"} => (v.result <=> JsonEq(to_value(lhs)[1], to_value(rhs)[1]))

\* C16 as stated: for two nulls, two booleans, two arrays or two objects every
\* ordering comparison is false, also when the two values are equal.
C16_OrderingAlwaysFalse ==
    BothUnordered => \A v \in verdicts : v.op \in {"Lt", "Le", "Gt", "Ge"} => ~v.result

\* null <= null has been evaluated, and is true.
C16_Witness ==
    /\ lhs = ValueResult(Null) /\ rhs = ValueResult(Null)
    /\ [op |-> "Le", result |-> TRUE] \in verdicts
    /\ [op |-> "Lt", result |-> FALSE] \in verdicts


\* The JSON type of a present operand
TypeOf(res) == to_value(res)[1].t

\* The operators that have been asked and are true
TrueOps == { v.op : v \in { x \in verdicts : x.result } }

\* C17: with both operands absent only == is true, with exactly one absent
\* only != is true, and for two present values of different JSON types only
\* != is true; the ordering comparisons are false in all three cases.
C17_AbsentAndMixedTypes ==
    (is_singular(lhs) /\ is_singular(rhs)) =>
        /\ (Absent(lhs) /\ Absent(rhs)) => \A v \in verdicts : v.result <=> v.op = "Eq"
        /\ (Absent(lhs) # Absent(rhs)) => \A v \in verdicts : v.result <=> v.op = "Ne"
        /\ (~Absent(lhs) /\ ~Absent(rhs) /\ TypeOf(lhs) # TypeOf(rhs))
               => \A v \in verdicts : v.result <=> v.op = "Ne"

\* All six operators have been asked of null and an absent operand, and of
\* them only != is true.
C17_Witness ==
    /\ lhs = ValueResult(Null) /\ rhs = Nothing
    /\ { v.op : v \in verdicts } = CompOp
    /\ TrueOps = {"Ne"}


-----------------------------------------------------------------------------
(* Query strings the parser is run on.  A query is written as the sequence *)
(* of its lexemes, so that whitespace can be put between any two of them.  *)

\* The characters of a lexeme
Spell(lexeme) ==
    CASE lexeme = ".." -> <<".", ".">>
      [] lexeme = "==" -> <<"=", "=">>
      [] lexeme = "&&" -> <<"&", "&">>
      [] lexeme = "||" -> <<"|", "|">>
      [] lexeme = "!=" -> <<"!", "=">>
      [] lexeme = "<=" -> <<"<", "=">>
      [] lexeme = ">=" -> <<">", "=">>
      [] lexeme = "false" -> Chars_false
      [] lexeme = "'x'" -> <<QUOTE, "x", QUOTE>>
      [] lexeme = "'é'" -> <<QUOTE, EAcute, QUOTE>>
      [] lexeme = "'a'" -> <<QUOTE, "a", QUOTE>>
      [] lexeme = "'a.'" -> <<QUOTE, "a", ".", QUOTE>>
      [] lexeme = "'.b'" -> <<QUOTE, ".", "b", QUOTE>>
      [] lexeme = "'('" -> <<QUOTE, "(", QUOTE>>
      [] lexeme = "true" -> Chars_true
      [] lexeme = "null" -> Chars_null
      [] lexeme = "count" -> Chars_count
      [] lexeme = "length" -> Chars_length
      [] lexeme = "value" -> Chars_value
      [] lexeme = "match" -> Chars_match
      [] lexeme = "search" -> Chars_search
      [] OTHER -> <<lexeme>>

\* The query string of the lexemes, with ws after the gap-th lexeme (gap 0: nowhere)
RECURSIVE Render(_, _, _)
Render(lexemes, gap, ws) ==
    IF lexemes = <<>> THEN <<>>
    ELSE Spell(Head(lexemes)) \o (IF gap = 1 THEN ws ELSE <<>>)
             \o Render(Tail(lexemes), gap - 1, ws)

Tight(lexemes) == Render(lexemes, 0, <<>>)

WhitespaceRuns == { <<" ">>, <<"\t">>, <<"\n">>, <<"\r">>, <<"\f">>, <<NBSP>>, <<" ", " ">> }

FunctionNames == {"count", "length", "value", "match", "search"}

\* Queries the parser accepts: segments at the top level and in filter paths,
\* and calls of the five functions.
ValidQueries ==
    { <<"$", ".", "a">>,
      <<"$", "..", "a">>,
      <<"$", ".", "*">>,
      <<"$", "..", "*">>,
      <<"$", "..", "[", "0", "]">>,
      <<"$", ".", "a", ".", "b">>,
      <<"$", ".", "true">>,
      <<"$", ".", "é">>,
      <<"$", "[", "?", "@", ".", "a", "]">>,
      <<"$", "[", "?", "@", "..", "a", "]">>,
      <<"$", "[", "?", "@", ".", "*", "]">>,
      <<"$", "[", "?", "@", "..", "[", "0", "]", "]">>,
      <<"$", "[", "?", "$", ".", "a", "==", "1", "]">>,
      <<"$", "[", "?", "@", ".", "a", "&&", "@", "..", "b", "]">>,
      <<"$", "[", "?", "length", "(", "@", ")", ">", "0", "]">>,
      <<"$", "[", "?", "count", "(", "@", "..", "*", ")", "==", "1", "]">>,
      <<"$", "[", "?", "match", "(", "@", ".", "a", ",", "'x'", ")", "]">>,
      <<"$", "[", "?", "!", "search", "(", "@", ".", "a", ",", "'x'", ")", "]">>,
      <<"$", "[", "?", "value", "(", "@", ".", "a", ")", "==", "null", "]">>,
      <<"$", "[", "'é'", "]", "[", "?", "length", "(", "@", ".", "a", ")", ">", "0", "]">>,
      <<"$", "[", "?", "@", "[", "?", "length", "(", "@", ".", "a", ")", "==", "1", "]", "]">> }

\* Whitespace after the gap-th lexeme follows `.` or `..`, or lies between a
\* function name and its `(`.
ForbiddenGap(lexemes, gap) ==
    /\ gap \in 1..(Len(lexemes) - 1)
    /\ \/ lexemes[gap] \in {".", ".."}
       \/ lexemes[gap] \in FunctionNames /\ lexemes[gap + 1] = "("

TightInputs == { Tight(q) : q \in ValidQueries }

SpacedInputs ==
    UNION { { Render(q, gap, ws) : ws \in WhitespaceRuns } :
                <<q, gap>> \in { qg \in ValidQueries \X (1..16) : ForbiddenGap(qg[1], qg[2]) } }

WhitespaceInputs ==
    UNION { { Render(q, gap, ws) : gap \in 0..(Len(q) - 1), ws \in WhitespaceRuns } :
                q \in ValidQueries }

\* Filters whose expression is, or compares, a function call
TypingQueries ==
    { <<"$", "[", "?", "count", "(", "@", ".", "x", ")", "]">>,
      <<"$", "[", "?", "(", "count", "(", "@", ".", "x", ")", ")", "]">>,
      <<"$", "[", "?", "length", "(", "@", ")", "]">>,
      <<"$", "[", "?", "value", "(", "@", ".", "x", ")", "]">>,
      <<"$", "[", "?", "count", "(", "@", ".", "x", ")", ">", "0", "]">>,
      <<"$", "[", "?", "@", "[", "?", "count", "(", "@", ".", "x", ")", "]", "]">>,
      <<"$", "[", "?", "@", ".", "a", "[", "?", "length", "(", "@", ")", "]", "]">>,
      <<"$", "[", "?", "@", "..", "[", "?", "value", "(", "@", ".", "x", ")", "]", "]">>,
      <<"$", "[", "?", "count", "(", "@", "[", "?", "count", "(", "@", ".", "x", ")", "]",
        ")", "==", "1", "]">>,
      <<"$", "[", "?", "@", "[", "?", "count", "(", "@", ".", "x", ")", ">", "0", "]", "]">>,
      <<"$", "[", "?", "match", "(", "@", ".", "a", ",", "'x'", ")", "==", "true", "]">>,
      <<"$", "[", "?", "true", "==", "search", "(", "@", ".", "a", ",", "'x'", ")", "]">>,
      <<"$", "[", "?", "@", "[", "?", "match", "(", "@", ".", "a", ",", "'x'", ")", "==",
        "true", "]", "]">>,
      <<"$", "[", "?", "@", "[", "?", "match", "(", "@", ".", "a", ",", "'x'", ")", "]", "]">> }

\* Strings that are no query at all
MalformedQueries ==
    { <<>>, <<"a">>, <<"$", ".">>, <<"$", "..">>, <<"$", "[">>, <<"$", "[", "0">>,
      <<"$", "[", "0", "1", "]">>, <<"$", "[", "-", "0", "]">>, <<"$", "[", "?", "]">>,
      <<"$", "[", "?", "@", ".", "a", "=", "1", "]">>, <<"$", "[", "?", "a", "]">>,
      <<"$", "[", "?", "@", ".", "a", "==", "]">>, <<"$", "[", "'x'">>, <<"$", "$">>,
      <<" ", "$">>, <<"$", " ">>, <<"$", "[", "?", "é", "(", "@", ")", "]">> }

\* Operands a comparison may have
SingularOperands ==
    { <<"@">>, <<"$">>, <<"1">>, <<"'x'">>, <<"true">>, <<"null">>,
      <<"@", ".", "a">>, <<"@", "[", "0", "]">>, <<"@", "[", "'a'", "]">>,
      <<"$", ".", "a", "[", "-", "1", "]">>, <<"(", "@", ".", "a", ")">>,
      <<"count", "(", "@", ".", "*", ")">>, <<"length", "(", "@", ".", "a", ")">>,
      <<"value", "(", "@", "..", "a", ")">> }

\* Paths with a wildcard, a descendant segment, a slice, several selectors
\* in one bracket, or a filter
NonSingularOperands ==
    { <<"@", "[", "*", "]">>, <<"@", ".", "*">>, <<"@", "..", "a">>,
      <<"@", "[", "0", ":", "1", "]">>, <<"@", "[", ":", "]">>,
      <<"@", "[", "0", ",", "1", "]">>, <<"@", "[", "'a'", ",", "'a'", "]">>,
      <<"@", "[", "?", "@", ".", "a", "]">>,
      <<"@", ".", "b", "[", "*", "]">>, <<"$", "[", "*", "]", ".", "a">>,
      <<"$", "..", "[", "0", "]">> }

\* Expressions that are no operand at all
LogicalOperands ==
    { <<"!", "@", ".", "a">>, <<"(", "@", ".", "a", "==", "1", ")">>,
      <<"(", "@", ".", "a", "&&", "@", ".", "b", ")">>,
      <<"match", "(", "@", ".", "a", ",", "'x'", ")">> }

ComparisonQuery(l, op, r) == <<"$", "[", "?">> \o l \o <<op>> \o r \o <<"]">>

\* The same comparison in a filter nested in a filter path
NestedComparisonQuery(l, op, r) ==
    <<"$", "[", "?", "@", "[", "?">> \o l \o <<op>> \o r \o <<"]", "]">>

\* Each operand on either side of an operand that is singular
ComparisonsWith(operands) ==
    UNION { { ComparisonQuery(x, op, y), ComparisonQuery(y, op, x),
              NestedComparisonQuery(x, "==", y), NestedComparisonQuery(y, "==", x) } :
                <<x, y, op>> \in operands \X {<<"1">>, <<"@", ".", "a">>}
                                     \X {"==", "!=", "<", "<=", ">", ">="} }

SingularComparisons == ComparisonsWith(SingularOperands)
NonSingularComparisons == ComparisonsWith(NonSingularOperands)
LogicalComparisons == ComparisonsWith(LogicalOperands)

SingularInputs == { Tight(q) : q \in SingularComparisons }
NonSingularInputs == { Tight(q) : q \in NonSingularComparisons }

ComparisonInputs ==
    SingularInputs \cup NonSingularInputs \cup { Tight(q) : q \in LogicalComparisons }

\* Arguments that are a query and a value (singular), a query only, a value
\* only, and neither
SingularQueryArgs == { <<"@">>, <<"$">>, <<"@", ".", "a">>, <<"$", "[", "0", "]">> }
OtherQueryArgs ==
    { <<"@", ".", "*">>, <<"@", "..", "a">>, <<"@", "[", "0", ",", "1", "]">>,
      <<"@", "[", "?", "@", ".", "a", "]">> }
OtherValueArgs ==
    { <<"'x'">>, <<"1">>, <<"null">>, <<"count", "(", "@", ".", "*", ")">>,
      <<"length", "(", "@", ")">>, <<"value", "(", "@", ".", "a", ")">> }
NoArgs ==
    { <<"match", "(", "@", ".", "a", ",", "'x'", ")">>, <<"search", "(", "@", ",", "'x'", ")">>,
      <<"@", ".", "a", "==", "1">>, <<"@", ".", "a", "&&", "@", ".", "b">>, <<"!", "@", ".", "a">> }

QueryArgs == SingularQueryArgs \cup OtherQueryArgs
ValueArgs == SingularQueryArgs \cup OtherValueArgs
AllArgs == QueryArgs \cup ValueArgs \cup NoArgs

\* Argument lists of 0, 1, 2 and 3 arguments
ArgLists ==
    { <<>> } \cup { <<a>> : a \in AllArgs }
        \cup { <<a, <<"'x'">>>> : a \in AllArgs } \cup { <<<<"@">>, a>> : a \in AllArgs }
        \cup { <<a, <<"'x'">>, <<"'x'">>>> : a \in SingularQueryArgs }

\* The lexemes of the arguments, separated by commas
RECURSIVE CommaSeparated(_)
CommaSeparated(args) ==
    IF args = <<>> THEN <<>>
    ELSE IF Len(args) = 1 THEN args[1]
    ELSE args[1] \o <<",">> \o CommaSeparated(Tail(args))

\* A filter that tests the call when it is a call of match or search, and
\* compares it otherwise
CallQuery(name, args) ==
    <<"$", "[", "?", name, "(">> \o CommaSeparated(args) \o <<")">>
        \o (IF name \in {"match", "search"} THEN <<>> ELSE <<"==", "1">>) \o <<"]">>

CalledNames == FunctionNames \cup {"f", "é", "true"}

\* The function table: arity and kind of the arguments
CallExpected(name, args) ==
    CASE name \in {"count", "value"} -> Len(args) = 1 /\ args[1] \in QueryArgs
      [] name = "length" -> Len(args) = 1 /\ args[1] \in ValueArgs
      [] name \in {"match", "search"} ->
             Len(args) = 2 /\ args[1] \in ValueArgs /\ args[2] \in ValueArgs
      [] OTHER -> FALSE

WellFormedCallInputs ==
    { Tight(CallQuery(na[1], na[2])) :
          na \in { x \in CalledNames \X ArgLists : CallExpected(x[1], x[2]) } }
IllFormedCallInputs ==
    { Tight(CallQuery(na[1], na[2])) :
          na \in { x \in CalledNames \X ArgLists : ~CallExpected(x[1], x[2]) } }

\* Literals of every kind
LiteralLexemes == { <<"1">>, <<"-", "1">>, <<"'x'">>, <<"true">>, <<"false">>, <<"null">> }

\* Expressions of LogicalType
TestOperands ==
    { <<"@", ".", "a">>, <<"!", "@", ".", "a">>, <<"@", ".", "a", "==", "1">>,
      <<"1", "==", "1">>, <<"(", "@", ".", "a", "||", "@", ".", "b", ")">>,
      <<"match", "(", "@", ".", "a", ",", "'x'", ")">> }

Parenthesised(lexemes) == <<"(">> \o lexemes \o <<")">>

\* Filter expressions that are a literal, and logical expressions with a
\* literal operand
LiteralFilterExprs ==
    LiteralLexemes \cup { Parenthesised(l) : l \in LiteralLexemes }
        \cup { Parenthesised(Parenthesised(l)) : l \in LiteralLexemes }
LiteralOperandExprs ==
    UNION { { l \o <<op>> \o t, t \o <<op>> \o l, Parenthesised(l) \o <<op>> \o t,
              t \o <<op>> \o Parenthesised(l), l \o <<op>> \o l,
              t \o <<"&&">> \o t \o <<op>> \o l, l \o <<op>> \o t \o <<"||">> \o t,
              Parenthesised(t \o <<op>> \o l) \o <<"&&">> \o t } :
            <<l, op, t>> \in LiteralLexemes \X {"&&", "||"} \X TestOperands }
LogicalExprs ==
    TestOperands
        \cup { t \o <<op>> \o u : <<t, op, u>> \in TestOperands \X {"&&", "||"} \X TestOperands }

\* The expression as the filter of the query, of a filter path, and of the
\* argument of a function
FilterOf(e) == <<"$", "[", "?">> \o e \o <<"]">>
FiltersOf(exprs) ==
    UNION { { FilterOf(e), FilterOf(<<"@", "[", "?">> \o e \o <<"]">>),
              <<"$", ".", "a", "[", "0", ",", "?">> \o e \o <<"]">>,
              FilterOf(<<"count", "(", "@", "[", "?">> \o e \o <<"]", ")", "==", "1">>) } :
            e \in exprs }

LiteralInputs == { Tight(q) : q \in FiltersOf(LiteralFilterExprs \cup LiteralOperandExprs) }
LogicalInputs == { Tight(q) : q \in FiltersOf(LogicalExprs) }

\* The decimal digits of a natural number
RECURSIVE DigitsOf(_)
DigitsOf(n) ==
    IF n < 10 THEN <<HexDigits[n + 1]>>
    ELSE Append(DigitsOf(n \div 10), HexDigits[(n % 10) + 1])

\* An integer as it is written in a query
IntLexemes(k) == IF k < 0 THEN <<"-">> \o DigitsOf(-k) ELSE DigitsOf(k)

\* Integers of the range that a model integer can hold
WrittenInts == {0, 1, -1, 2, -2, 10, -10, 123, 2147483647, -2147483647}

\* 2^53, 2^53 + 1, 10^16 and twenty nines
TwoTo53 == <<"9", "0", "0", "7", "1", "9", "9", "2", "5", "4", "7", "4", "0", "9", "9", "2">>
TwoTo53Plus1 == <<"9", "0", "0", "7", "1", "9", "9", "2", "5", "4", "7", "4", "0", "9", "9", "3">>
TenTo16 == <<"1">> \o [i \in 1..16 |-> "0"]
TwentyNines == [i \in 1..20 |-> "9"]

\* Numbers that are no index: -0, a leading zero, a fraction, an exponent,
\* and integers beyond 2^53 - 1 on either side
NoIndexNumbers ==
    { <<"-", "0">>, <<"0", "1">>, <<"-", "0", "1">>, <<"0", "0">>,
      <<"1", ".", "5">>, <<"1", ".", "0">>, <<"0", ".", "0">>, <<"-", "0", ".", "0">>,
      <<"-", "1", ".", "5">>, <<"1", "e", "2">>, <<"1", "E", "2">>, <<"1", "e", "0">>,
      <<"1", "e", "-", "1">>, <<"1", ".", "5", "e", "1">>,
      TwoTo53, <<"-">> \o TwoTo53, TwoTo53Plus1, TenTo16, <<"-">> \o TenTo16, TwentyNines }

\* The positions of an index and of a slice bound, with the other numbers of
\* the query
NumberContexts(n) ==
    { [query |-> <<"$", "[">> \o n \o <<"]">>, others |-> {}],
      [query |-> <<"$", "[">> \o n \o <<":", "]">>, others |-> {}],
      [query |-> <<"$", "[", ":">> \o n \o <<"]">>, others |-> {}],
      [query |-> <<"$", "[", ":", ":">> \o n \o <<"]">>, others |-> {}],
      [query |-> <<"$", "[", "5", ":", "7", ":">> \o n \o <<"]">>, others |-> {5, 7}],
      [query |-> <<"$", "..", "[">> \o n \o <<"]">>, others |-> {}],
      [query |-> <<"$", "[", "5", ",">> \o n \o <<"]">>, others |-> {5}],
      [query |-> <<"$", ".", "a", "[">> \o n \o <<":", "7", "]">>, others |-> {7}],
      [query |-> <<"$", "[", "?", "@", "[">> \o n \o <<"]", "==", "1", "]">>, others |-> {}],
      [query |-> <<"$", "[", "?", "@", "[", ":">> \o n \o <<"]", "]">>, others |-> {}] }

IndexCases ==
    UNION { { [source |-> Tight(c.query), values |-> c.others \cup {k}] :
                  c \in NumberContexts(IntLexemes(k)) } : k \in WrittenInts }
IndexInputs == { c.source : c \in IndexCases }
NoIndexInputs == { Tight(c.query) : c \in UNION { NumberContexts(n) : n \in NoIndexNumbers } }

\* Operands @.a, !@.b and @.c==1 with their expressions
FieldOf(name) == Path(CurrentNode, <<Child(<<Name(<<name>>)>>)>>)
Atoms ==
    { [lex |-> <<"@", ".", "a">>, ast |-> FieldOf("a")],
      [lex |-> <<"!", "@", ".", "b">>, ast |-> Not(FieldOf("b"))],
      [lex |-> <<"@", ".", "c", "==", "1">>,
       ast |-> Comparison(FieldOf("c"), "Eq", Literal(Num(1)))] }
LogicalOps == { [lex |-> "&&", op |-> "And"], [lex |-> "||", op |-> "Or"] }

\* x o y: the lexemes, and the expression when o binds x and y
Joined(x, o, y) ==
    [lex |-> x.lex \o <<o.lex>> \o y.lex, ast |-> Logical(x.ast, o.op, y.ast)]
InParens(x) == [lex |-> Parenthesised(x.lex), ast |-> x.ast]
Negated(x) == [lex |-> <<"!">> \o x.lex, ast |-> Not(x.ast)]

Pairs == { Joined(x, o, y) : <<x, o, y>> \in Atoms \X LogicalOps \X Atoms }

\* x o y p z: && binds tighter than ||, and equal operators bind from the left
Triple(x, o, y, p, z) ==
    [lex |-> x.lex \o <<o.lex>> \o y.lex \o <<p.lex>> \o z.lex,
     ast |-> IF o.op = "Or" /\ p.op = "And"
             THEN Logical(x.ast, "Or", Logical(y.ast, "And", z.ast))
             ELSE Logical(Logical(x.ast, o.op, y.ast), p.op, z.ast)]
Triples ==
    { Triple(t[1], t[2], t[3], t[4], t[5]) :
          t \in Atoms \X LogicalOps \X Atoms \X LogicalOps \X Atoms }

\* Parenthesised pairs as operands, alone, doubled and negated
Grouped ==
    UNION { { InParens(c), InParens(InParens(c)), Negated(InParens(c)) } \cup
            UNION { { Joined(InParens(c), o, x), Joined(x, o, InParens(c)) } :
                    <<o, x>> \in LogicalOps \X Atoms } : c \in Pairs }

PrecedenceCases == Atoms \cup Pairs \cup Triples \cup Grouped
PrecedenceInputs == { Tight(FilterOf(c.lex)) : c \in PrecedenceCases }

\* Comparisons with a second operator, with a negated operand and with a
\* logical expression as an operand
CompOpLexemes == {"==", "!=", "<", "<=", ">", ">="}
ChainedComparisons ==
    { <<"@", ".", "a", o, "1", p, "2">> : <<o, p>> \in CompOpLexemes \X CompOpLexemes }
NegatedComparisons ==
    UNION { { <<"!", "@", ".", "a", o, "1">>, <<"1", o, "!", "@", ".", "a">> } :
            o \in CompOpLexemes }
ParenthesisedOperands ==
    { [lex |-> <<"@", ".", "a", "==", "(", "@", ".", "b", ")">>,
       ast |-> Comparison(FieldOf("a"), "Eq", FieldOf("b"))],
      [lex |-> <<"(", "(", "@", ".", "a", ")", ")", "==", "1">>,
       ast |-> Comparison(FieldOf("a"), "Eq", Literal(Num(1)))] }
OperandInputs ==
    { Tight(FilterOf(e)) : e \in ChainedComparisons \cup NegatedComparisons }
        \cup { Tight(FilterOf(c.lex)) : c \in ParenthesisedOperands }

\* The blanks of the language, and other white space
Blanks == {" ", "\t", "\r", "\n"}
OtherWhiteSpace == {"\f", VT, NBSP}

\* Queries the lexer rejects, with its error; all but the first have a
\* token the grammar does not allow before the character the lexer rejects:
\* $#, $$#, a.b=1, $]|x, $[?a&1]
LexerRejected ==
    { [body |-> <<"$", "#">>, message |-> "unexpected character", position |-> 1],
      [body |-> <<"$", "$", "#">>, message |-> "unexpected character", position |-> 2],
      [body |-> <<"a", ".", "b", "=", "1">>,
       message |-> "expected '==' but found single '='", position |-> 3],
      [body |-> <<"$", "]", "|", "x">>,
       message |-> "expected '||' but found single '|'", position |-> 2],
      [body |-> <<"$", "[", "?", "a", "&", "1", "]">>,
       message |-> "expected '&&' but found single '&'", position |-> 4] }
\* Queries the lexer accepts: $, $.a, $$, a, $[
LexerAccepted ==
    { <<"$">>, <<"$", ".", "a">>, <<"$", "$">>, <<"a">>, <<"$", "[">> }
OrderBodies == { c.body : c \in LexerRejected } \cup LexerAccepted

\* Nothing, or one whitespace character
Padding == { <<>> } \cup { <<ch>> : ch \in Blanks \cup OtherWhiteSpace }
OrderCases ==
    { [lead |-> x[1], body |-> x[2], trail |-> x[3]] :
          x \in Padding \X OrderBodies \X Padding }
Padded(c) == c.lead \o c.body \o c.trail
OrderInputs == { Padded(c) : c \in OrderCases }

ParseInputs ==
    WhitespaceInputs \cup { Tight(q) : q \in TypingQueries \cup MalformedQueries }
        \cup ComparisonInputs \cup WellFormedCallInputs \cup IllFormedCallInputs
        \cup LiteralInputs \cup LogicalInputs \cup IndexInputs \cup NoIndexInputs
        \cup PrecedenceInputs \cup OperandInputs \cup OrderInputs

InitParse ==
    /\ in_path = <<>>
    /\ work = <<>>
    /\ source \in ParseInputs
    /\ outcome = [ok |-> TRUE]
    /\ doc = Null /\ path = JsonPath(<<>>) /\ nodes = <<>> /\ cache = EmptyCache
    /\ NoOperands
    /\ pc = "idle"

\* Parser::parse(source)
Parse ==
    /\ pc = "idle"
    /\ outcome' = parse(source)
    /\ pc' = "parse"
    /\ UNCHANGED <<doc, path, nodes, cache, source, lhs, rhs, verdicts, work, in_path>>

NextParse == Parse

SpecParse == InitParse /\ [][NextParse]_vars

WhitespaceMessages ==
    { "whitespace not allowed after '.'", "whitespace not allowed after '..'",
      "whitespace not allowed between function name and '('" }

\* C9: a query with whitespace after `.`, after `..` or between a function name
\* and its `(` is rejected, at the top level and inside a filter path, and the
\* same query without the whitespace is accepted.
C9_NoWhitespaceAfterDotOrFunctionName ==
    pc = "parse" =>
        /\ source \in SpacedInputs => ~outcome.ok /\ outcome.message \in WhitespaceMessages
        /\ source \in TightInputs => outcome.ok

\* Whitespace after the `.` of a filter path has been rejected.
C9_Witness ==
    /\ pc = "parse"
    /\ source = Render(<<"$", "[", "?", "@", ".", "a", "]">>, 5, <<" ">>)
    /\ ~outcome.ok


\* The filter selectors of a list of segments
FilterSelectors(segments) ==
    { segments[i].selectors[j] :
          <<i, j>> \in { ij \in (1..Len(segments)) \X (1..4) :
                             /\ ij[2] <= Len(segments[ij[1]].selectors)
                             /\ segments[ij[1]].selectors[ij[2]].kind = "Filter" } }

\* Every expression inside e, e included, through the filters of its paths
RECURSIVE ExprsIn(_)
ExprsIn(e) ==
    {e} \cup
    CASE e.kind = "Path" ->
             UNION { ExprsIn(selector.expr) : selector \in FilterSelectors(e.segments) }
      [] e.kind \in {"Comparison", "Logical"} -> ExprsIn(e.left) \cup ExprsIn(e.right)
      [] e.kind = "Not" -> ExprsIn(e.inner)
      [] e.kind = "FunctionCall" -> UNION { ExprsIn(e.args[i]) : i \in 1..Len(e.args) }
      [] OTHER -> {}

\* Every expression of a parsed query
AllExprs(jsonpath) ==
    UNION { ExprsIn(selector.expr) : selector \in FilterSelectors(jsonpath.segments) }

\* The whole expressions of the filter selectors of a parsed query, nested ones included
FilterExprs(jsonpath) ==
    { selector.expr : selector \in FilterSelectors(jsonpath.segments) }
    \cup UNION { { selector.expr : selector \in FilterSelectors(e.segments) } :
                     e \in { x \in AllExprs(jsonpath) : x.kind = "Path" } }

IsCallOf(e, names) == e.kind = "FunctionCall" /\ e.name \in names

\* No comparison has a call of match or search as an operand.
NoLogicalTypeOperand(jsonpath) ==
    \A e \in AllExprs(jsonpath) :
        e.kind = "Comparison" =>
            ~IsCallOf(e.left, LOGICAL_TYPE_FUNCTIONS) /\ ~IsCallOf(e.right, LOGICAL_TYPE_FUNCTIONS)

\* No filter selector has a call of count, length or value as its whole expression.
NoValueTypeFilter(jsonpath) ==
    \A e \in FilterExprs(jsonpath) : ~IsCallOf(e, COMPARISON_TYPE_FUNCTIONS)

\* C10: in an accepted query no comparison has a call of match or search as an
\* operand, and no filter selector, nested or not, has a call of count, length
\* or value as its whole expression.
C10_FunctionResultKindsEnforced ==
    (pc = "parse" /\ outcome.ok) =>
        NoLogicalTypeOperand(outcome.val) /\ NoValueTypeFilter(outcome.val)

\* A filter nested in a filter path has been accepted with a call of count as
\* its whole expression.
C10_Witness ==
    /\ pc = "parse"
    /\ source = Tight(<<"$", "[", "?", "@", "[", "?", "count", "(", "@", ".", "x", ")", "]", "]">>)
    /\ outcome.ok
    /\ ~NoValueTypeFilter(outcome.val)


-----------------------------------------------------------------------------
(* query on its own: a query string and a document *)

StrX == Str(<<"x">>)

QueryDocs ==
    { Null, StrX, Arr(<<>>), Obj(<<>>),
      Arr(<<Num(1), Num(2), Num(3)>>),
      Obj(<<KV(KeyA, Num(1))>>),
      Obj(<<KV(KeyA, StrX), KV(KeyB, Arr(<<Num(1), Half>>))>>),
      Arr(<<Obj(<<KV(KeyA, Num(1))>>), Obj(<<KV(KeyA, StrX)>>), Obj(<<KV(KeyB, Null)>>)>>),
      Arr(<<Arr(<<Num(1)>>), Arr(<<Obj(<<KV(KeyA, Arr(<<Num(0)>>))>>)>>), StrX>>) }

\* Queries whose evaluation meets a missing key, an index out of range, a
\* step of 0, operands that cannot be compared, or a pattern that is no regex
IllTypedQueries ==
    { <<"$", ".", "b">>,
      <<"$", ".", "a", ".", "b">>,
      <<"$", "[", "5", "]">>,
      <<"$", "[", "-", "5", "]">>,
      <<"$", "[", "-", "1", "]", "[", "0", "]">>,
      <<"$", "[", ":", ":", "0", "]">>,
      <<"$", "[", "5", ":", "1", ":", "-", "1", "]">>,
      <<"$", "[", "1", ":", "5", "]">>,
      <<"$", "[", "'a'", ",", "0", "]">>,
      <<"$", "..", "b", "[", "1", "]">>,
      <<"$", "[", "?", "@", ".", "a", "<", "'x'", "]">>,
      <<"$", "[", "?", "@", ".", "a", "<", "1", "]">>,
      <<"$", "[", "?", "@", "==", "@", ".", "b", "]">>,
      <<"$", "[", "?", "match", "(", "@", ".", "a", ",", "'('", ")", "]">>,
      <<"$", "[", "?", "search", "(", "@", ".", "a", ",", "@", ".", "b", ")", "]">>,
      <<"$", "[", "?", "length", "(", "@", ".", "a", ")", ">", "0", "]">>,
      <<"$", "[", "?", "count", "(", "@", ".", "*", ")", "==", "1", "]">>,
      <<"$", "[", "?", "value", "(", "@", ".", "*", ")", "==", "1", "]">>,
      <<"$", "[", "?", "@", "[", "?", "count", "(", "@", ".", "x", ")", "]", "]">>,
      <<"$", "[", "?", "!", "@", ".", "a", "]">> }

PlainQueries ==
    { <<"$">>, <<"$", ".", "a">>, <<"$", "[", "0", "]">>, <<"$", "[", "*", "]">>,
      <<"$", "..", "*">>, <<"$", "[", "?", "@", ".", "a", "==", "1", "]">> }

\* Query strings the parser rejects
RejectedQueries ==
    { <<>>, <<"a">>, <<"$", ".">>, <<"$", ".", " ", "a">>, <<"$", "[", "0", "1", "]">>,
      <<"$", "[", ":", ":", "0">>, <<"$", "[", "?", "count", "(", "@", ".", "x", ")", "]">>,
      <<"$", "[", "9", "0", "0", "7", "1", "9", "9", "2", "5", "4", "7", "4", "0", "9", "9", "2", "]">> }

QueryInputs == { Tight(q) : q \in IllTypedQueries \cup PlainQueries \cup RejectedQueries }

InitQuery ==
    /\ in_path = <<>>
    /\ work = <<>>
    /\ source \in QueryInputs
    /\ doc \in QueryDocs
    /\ outcome = [ok |-> TRUE]
    /\ path = JsonPath(<<>>) /\ nodes = <<>> /\ cache = EmptyCache
    /\ NoOperands
    /\ pc = "idle"

\* query(source, doc)
Query ==
    /\ pc = "idle"
    /\ outcome' = query(source, doc, cache).r
    /\ cache' = query(source, doc, cache).c
    /\ pc' = "query"
    /\ UNCHANGED <<doc, path, nodes, source, lhs, rhs, verdicts, work, in_path>>

NextQuery == Query

SpecQuery == InitQuery /\ [][NextQuery]_vars

\* The values of the nodes of a document
NodeValues(root) == { ValueAt(root, ref) : ref \in Range(Preorder(root, <<>>)) }

\* C6: query fails exactly when parse fails, and then with the parse error;
\* otherwise it returns a list, possibly empty, of values of nodes of the
\* document, whatever ill-typed operation the evaluation meets.
C6_QueryFailsOnlyOnParseError ==
    pc = "query" =>
        /\ outcome.ok <=> parse(source).ok
        /\ ~outcome.ok => outcome = Error_from(parse(source))
        /\ outcome.ok => \A i \in 1..Len(outcome.val) : outcome.val[i] \in NodeValues(doc)

\* A slice with step 0 over a non-empty array has been answered with the empty list.
C6_Witness ==
    /\ pc = "query"
    /\ source = Tight(<<"$", "[", ":", ":", "0", "]">>)
    /\ doc.t = "arr" /\ doc.a # <<>>
    /\ outcome.ok /\ outcome.val = <<>>


-----------------------------------------------------------------------------
(* One thread evaluating one query after another: the regex cache is what *)
(* an evaluation leaves behind for the next.                              *)

StrA == Str(<<"a">>)
StrAB == Str(<<"a", "b">>)
StrBA == Str(<<"b", "a">>)
StrParen == Str(<<"(">>)

RegexDocs ==
    { Arr(<<StrA, StrAB, StrBA>>),
      Arr(<<StrAB, Str(<<"a", LF>>), Num(1)>>),
      Arr(<<Obj(<<KV(KeyA, StrAB), KV(KeyB, StrA)>>),
            Obj(<<KV(KeyA, StrA), KV(KeyB, StrParen)>>),
            Obj(<<KV(KeyA, StrA), KV(KeyB, Str(AnchorOpen \o <<"a">> \o AnchorClose))>>)>>) }

\* match and search with patterns that compile, a pattern that does not, and
\* patterns taken from the document
RegexQueryStrings ==
    { <<"$", "[", "?", "match", "(", "@", ",", "'a'", ")", "]">>,
      <<"$", "[", "?", "search", "(", "@", ",", "'a'", ")", "]">>,
      <<"$", "[", "?", "match", "(", "@", ",", "'a.'", ")", "]">>,
      <<"$", "[", "?", "search", "(", "@", ",", "'.b'", ")", "]">>,
      <<"$", "[", "?", "match", "(", "@", ",", "'('", ")", "]">>,
      <<"$", "[", "?", "search", "(", "@", ",", "'('", ")", "]">>,
      <<"$", "[", "?", "match", "(", "@", ".", "a", ",", "@", ".", "b", ")", "]">>,
      <<"$", "[", "?", "search", "(", "@", ".", "a", ",", "@", ".", "b", ")", "]">> }

RegexQueries == { parse(Tight(q)).val : q \in RegexQueryStrings }

QMatchA == parse(Tight(<<"$", "[", "?", "match", "(", "@", ",", "'a'", ")", "]">>)).val

InitThread ==
    /\ in_path = <<>>
    /\ work = <<>>
    /\ doc \in RegexDocs
    /\ path \in RegexQueries
    /\ nodes = <<>>
    /\ cache = EmptyCache
    /\ NoInput /\ NoOperands
    /\ pc = "idle"

\* evaluate(q, d) on the thread, with the cache the earlier evaluations left
EvaluateOnThread(q, d) ==
    /\ path' = q
    /\ doc' = d
    /\ nodes' = evaluate(q, d, cache).r
    /\ cache' = evaluate(q, d, cache).c
    /\ pc' = "evaluate"
    /\ UNCHANGED <<source, outcome, lhs, rhs, verdicts, work, in_path>>

NextThread == \E q \in RegexQueries, d \in RegexDocs : EvaluateOnThread(q, d)

SpecThread == InitThread /\ [][NextThread]_vars

\* C8: whatever was evaluated before on the thread, evaluate returns the node
\* list it returns on a thread whose regex cache is empty.
C8_IndependentOfHistory ==
    pc = "evaluate" => nodes = evaluate(path, doc, EmptyCache).r

\* match(@, 'a') has selected a node on a thread whose cache already holds the
\* regex of search(@, 'a') and others.
C8_Witness ==
    /\ pc = "evaluate"
    /\ path = QMatchA
    /\ nodes # <<>>
    /\ CacheHas(cache, <<"a">>)
    /\ Cardinality(cache) >= 4


\* An operand a comparison may have: a literal, @ or $, a path whose segments
\* all select one name or one index, or a call of count, length or value.
ComparableOperand(e) ==
    \/ e.kind \in {"Literal", "CurrentNode", "RootNode"}
    \/ /\ e.kind = "Path"
       /\ \A i \in 1..Len(e.segments) :
              /\ e.segments[i].kind = "Child"
              /\ Len(e.segments[i].selectors) = 1
              /\ e.segments[i].selectors[1].kind \in {"Name", "Index"}
    \/ IsCallOf(e, {Chars_count, Chars_length, Chars_value})

\* C11: in an accepted query both operands of every comparison are a literal,
\* @ or $, a singular path or a call of count, length or value; a comparison
\* with a non-singular path on either side is a parse error.
C11_ComparisonOperandsSingular ==
    pc = "parse" =>
        /\ outcome.ok =>
               \A e \in AllExprs(outcome.val) :
                   e.kind = "Comparison" =>
                       ComparableOperand(e.left) /\ ComparableOperand(e.right)
        /\ source \in NonSingularInputs =>
               /\ ~outcome.ok
               /\ outcome.message = "non-singular query not allowed in comparison"
        /\ source \in SingularInputs => outcome.ok

\* $[?@.a==@.b[*]], with the non-singular path on the right, has been rejected.
C11_Witness ==
    /\ pc = "parse"
    /\ source = Tight(ComparisonQuery(<<"@", ".", "a">>, "==", <<"@", ".", "b", "[", "*", "]">>))
    /\ ~outcome.ok


\* A call of one of the five functions with the arity and the argument kinds
\* of the function table
WellFormedCall(e) ==
    CASE e.name \in {Chars_count, Chars_value} ->
             Len(e.args) = 1 /\ e.args[1].kind \in {"CurrentNode", "RootNode", "Path"}
      [] e.name = Chars_length -> Len(e.args) = 1 /\ ComparableOperand(e.args[1])
      [] e.name \in {Chars_match, Chars_search} ->
             Len(e.args) = 2 /\ ComparableOperand(e.args[1]) /\ ComparableOperand(e.args[2])
      [] OTHER -> FALSE

\* C12: every function call of an accepted query is a call of count, length,
\* value, match or search with the arity and the argument kinds of the
\* function table, and a call with another name, arity or argument kind is a
\* parse error.
C12_FunctionCallsWellFormed ==
    pc = "parse" =>
        /\ outcome.ok =>
               \A e \in AllExprs(outcome.val) : e.kind = "FunctionCall" => WellFormedCall(e)
        /\ source \in IllFormedCallInputs => ~outcome.ok
        /\ source \in WellFormedCallInputs => outcome.ok

\* $[?match(match(@.a,'x'),'x')], a call of match with a LogicalType first
\* argument, has been rejected.
C12_Witness ==
    /\ pc = "parse"
    /\ source = Tight(CallQuery("match", << <<"match", "(", "@", ".", "a", ",", "'x'", ")">>,
                                            <<"'x'">> >>))
    /\ ~outcome.ok


\* C13: a filter whose whole expression is a literal, parenthesised or not,
\* and a && or || with a literal operand are rejected, so that in an accepted
\* query no filter selector has a literal as its expression and no logical
\* expression has a literal as its left or right operand.
C13_NoBareLiteral ==
    pc = "parse" =>
        /\ outcome.ok =>
               /\ \A e \in FilterExprs(outcome.val) : e.kind # "Literal"
               /\ \A e \in AllExprs(outcome.val) :
                      e.kind = "Logical" => e.left.kind # "Literal" /\ e.right.kind # "Literal"
        /\ source \in LiteralInputs =>
               /\ ~outcome.ok
               /\ outcome.message \in { "filter expression cannot be a literal alone",
                                        "literal cannot be used as operand of logical operator" }
        /\ source \in LogicalInputs => outcome.ok

\* $[?1&&@.a] has been rejected for its literal operand.
C13_Witness ==
    /\ pc = "parse"
    /\ source = Tight(FilterOf(<<"1", "&&", "@", ".", "a">>))
    /\ ~outcome.ok
    /\ outcome.message = "literal cannot be used as operand of logical operator"


\* The selectors of a list of segments
SelectorsOf(segments) ==
    UNION { { segments[i].selectors[j] : j \in 1..Len(segments[i].selectors) } :
            i \in 1..Len(segments) }

\* The selectors of a parsed query, those of its filter paths included
AllSelectors(jsonpath) ==
    SelectorsOf(jsonpath.segments)
        \cup UNION { SelectorsOf(e.segments) : e \in { x \in AllExprs(jsonpath) : x.kind = "Path" } }

\* The index of the selector, or the bounds that its slice has
NumbersOf(selector) ==
    CASE selector.kind = "Index" -> {selector.idx}
      [] selector.kind = "Slice" ->
             { b.val : b \in { x \in {selector.start, selector.end, selector.step} : x.some } }
      [] OTHER -> {}

AllNumbers(jsonpath) == UNION { NumbersOf(selector) : selector \in AllSelectors(jsonpath) }

\* -(2^53 - 1) <= k <= 2^53 - 1, by the digits of k
InExactRange(k) == ~DigitsLess(RFC9535_MAX_INT, DigitsOf(IF k < 0 THEN -k ELSE k))

\* C14: the indices and the slice bounds of an accepted query are integers of
\* [-(2^53 - 1), 2^53 - 1], each the integer that was written, and a number in
\* index or slice position that is -0, has a leading zero, a fraction or an
\* exponent, or lies beyond that range makes parse fail.
C14_IndexNumbersExactIntegers ==
    pc = "parse" =>
        /\ outcome.ok => \A k \in AllNumbers(outcome.val) : k \in Int /\ InExactRange(k)
        /\ source \in NoIndexInputs => ~outcome.ok
        /\ \A c \in IndexCases :
               source = c.source => outcome.ok /\ AllNumbers(outcome.val) = c.values

\* $[1.0] has been rejected for its fraction.
C14_Witness ==
    /\ pc = "parse"
    /\ source = <<"$", "[", "1", ".", "0", "]">>
    /\ ~outcome.ok
    /\ outcome.message = "index must be an integer, not a decimal"


-----------------------------------------------------------------------------
(* SpecSlice: evaluate_slice on arrays of every length up to MaxSliceLen,   *)
(* with bounds and steps on both sides of the length.                       *)

MaxSliceLen == 3
MaxSliceBound == 5
MaxSliceStep == 3

\* Some(x) for every x of the set, and None
Optional(S) == { Some(x) : x \in S } \cup {None}

\* The array [0, 1, ..., n - 1]
Counting(n) == Arr([i \in 1..n |-> Num(i - 1)])

SliceOf(jsonpath) == jsonpath.segments[1].selectors[1]

InitSlice ==
    /\ in_path = <<>>
    /\ work = <<>>
    /\ doc \in { Counting(n) : n \in 0..MaxSliceLen }
    /\ path \in { JsonPath(<<Child(<<Slice(start, end, step)>>)>>) :
                      <<start, end, step>> \in
                          Optional(-MaxSliceBound..MaxSliceBound)
                              \X Optional(-MaxSliceBound..MaxSliceBound)
                              \X Optional(-MaxSliceStep..MaxSliceStep) }
    /\ nodes = <<>>
    /\ cache = EmptyCache
    /\ pc = "idle"
    /\ NoInput /\ NoOperands

\* evaluate_slice(arr, start, end, step) for the array that is the document
EvaluateSlice ==
    /\ pc = "idle"
    /\ nodes' = evaluate_slice(<<>>, Len(doc.a), SliceOf(path).start, SliceOf(path).end,
                               SliceOf(path).step)
    /\ pc' = "evaluate_slice"
    /\ UNCHANGED <<doc, path, cache, source, outcome, lhs, rhs, verdicts, work, in_path>>

NextSlice == EvaluateSlice

SpecSlice == InitSlice /\ [][NextSlice]_vars

\* RFC 9535, section 2.3.4.2.2: Normalize, Bounds and the selection loop
RfcNormalize(i, len) == IF i >= 0 THEN i ELSE len + i

RfcLower(start, end, step, len) ==
    IF step >= 0 THEN Min(Max(RfcNormalize(start, len), 0), len)
    ELSE Min(Max(RfcNormalize(end, len), -1), len - 1)

RfcUpper(start, end, step, len) ==
    IF step >= 0 THEN Min(Max(RfcNormalize(end, len), 0), len)
    ELSE Min(Max(RfcNormalize(start, len), -1), len - 1)

RECURSIVE RfcLoop(_, _, _, _)
RfcLoop(i, lower, upper, step) ==
    IF step > 0 /\ i < upper THEN <<i>> \o RfcLoop(i + step, lower, upper, step)
    ELSE IF step < 0 /\ lower < i THEN <<i>> \o RfcLoop(i + step, lower, upper, step)
    ELSE <<>>

\* The indices the RFC selects, the absent bounds taking their defaults
RfcSlice(len, start, end, step) ==
    LET st == IF step.some THEN step.val ELSE 1
        s == IF start.some THEN start.val ELSE IF st >= 0 THEN 0 ELSE len - 1
        e == IF end.some THEN end.val ELSE IF st >= 0 THEN len ELSE -len - 1
        lower == RfcLower(s, e, st, len)
        upper == RfcUpper(s, e, st, len)
    IN  IF st = 0 THEN <<>>
        ELSE RfcLoop(IF st > 0 THEN lower ELSE upper, lower, upper, st)

\* The indices of the elements that were selected
SelectedIndices == [k \in 1..Len(nodes) |-> nodes[k][1] - 1]

\* C15: evaluate_slice selects exactly the indices that the slice algorithm
\* of RFC 9535 selects, for every length, start, end and step.
C15_SliceSelectsRfcIndices ==
    pc = "evaluate_slice" =>
        SelectedIndices = RfcSlice(Len(doc.a), SliceOf(path).start, SliceOf(path).end,
                                   SliceOf(path).step)

\* [0, 1, 2] sliced by [-5::-1]: the start lies before the array, the RFC
\* selects nothing, and the element 0 has been selected.
C15_Witness ==
    /\ pc = "evaluate_slice"
    /\ doc = Counting(3)
    /\ SliceOf(path) = Slice(Some(-5), None, Some(-1))
    /\ SelectedIndices = <<0>>
    /\ RfcSlice(3, Some(-5), None, Some(-1)) = <<>>


-----------------------------------------------------------------------------
(* SpecDescend: the loop of collect_descendants, one iteration at a time,   *)
(* on the document as the node it is called with.                           *)

InitDescend ==
    /\ in_path = <<>>
    /\ work = <<<<>>>>
    /\ doc \in Docs
    /\ path = JsonPath(<<>>)
    /\ nodes = <<>>
    /\ cache = EmptyCache
    /\ pc = "while"
    /\ NoInput /\ NoOperands

\* Mutant: the children are pushed in document order, not reversed.
CollectStepUnreversed ==
    /\ pc = "while"
    /\ work # <<>>
    /\ nodes' = Append(nodes, work[Len(work)])
    /\ work' = SubSeq(work, 1, Len(work) - 1) \o ChildRefs(doc, work[Len(work)])
    /\ UNCHANGED <<doc, path, cache, source, outcome, lhs, rhs, verdicts, pc, in_path>>

\* while let Some(current) = stack.pop() { results.push(current); stack.extend(..) }
CollectStep ==
    /\ pc = "while"
    /\ work # <<>>
    /\ nodes' = Append(nodes, work[Len(work)])
    /\ work' = SubSeq(work, 1, Len(work) - 1) \o Reverse(ChildRefs(doc, work[Len(work)]))
    /\ UNCHANGED <<doc, path, cache, source, outcome, lhs, rhs, verdicts, pc, in_path>>

\* stack.pop() is None: the loop ends and the results are returned.
CollectReturn ==
    /\ pc = "while"
    /\ work = <<>>
    /\ pc' = "collect_descendants"
    /\ UNCHANGED <<doc, path, nodes, cache, source, outcome, lhs, rhs, verdicts, work, in_path>>

NextDescend == CollectStep \/ CollectReturn

\* The loop runs on until it returns.
SpecDescend == InitDescend /\ [][NextDescend]_vars /\ WF_vars(NextDescend)

\* The number of nodes of a value
RECURSIVE Size(_)
RECURSIVE SizeFrom(_, _)
Size(v) == 1 + SizeFrom(v, 1)
SizeFrom(v, i) ==
    IF i > Len(Children(v)) THEN 0 ELSE Size(Children(v)[i]) + SizeFrom(v, i + 1)

Collected == pc = "collect_descendants"

\* C19: collect_descendants returns, and what it returns is every node of
\* the subtree exactly once, the node itself first, in pre-order with the
\* children in document order.
C19_DescendantsInPreorder ==
    /\ <>Collected
    /\ [](Collected =>
              /\ nodes[1] = <<>>
              /\ nodes = Preorder(doc, <<>>)
              /\ nodes = collect_descendants(doc, <<>>)
              /\ Len(nodes) = Size(doc)
              /\ \A i \in 1..Len(nodes) :
                     /\ IsNodeOf(doc, nodes[i])
                     /\ \A j \in 1..Len(nodes) : nodes[i] = nodes[j] => i = j)

\* The loop has returned the four nodes of a tree of depth two with two
\* leaves, parent before children.
C19_Witness ==
    /\ Collected
    /\ doc = Arr(<<Arr(<<Num(1)>>), Num(1)>>)
    /\ nodes = << <<>>, <<1>>, <<1, 1>>, <<2>> >>


-----------------------------------------------------------------------------
(* SpecCopies: the two copies of the segment evaluation, both applied to    *)
(* the segments of one query from the root of one document.                 *)

InitCopies ==
    /\ in_path = <<>>
    /\ work = <<>>
    /\ doc \in Docs
    /\ path \in Range(Queries)
    /\ nodes = <<>>
    /\ cache = EmptyCache
    /\ pc = "idle"
    /\ NoInput /\ NoOperands

\* evaluate(path, root) beside evaluate_path_segments(&path.segments, root, root)
EvaluateCopies ==
    /\ pc = "idle"
    /\ nodes' = evaluate(path, doc, cache).r
    /\ in_path' = evaluate_path_segments(path.segments, <<>>, doc, cache).r
    /\ pc' = "evaluate_path_segments"
    /\ UNCHANGED <<doc, path, cache, source, outcome, lhs, rhs, verdicts, work>>

NextCopies == EvaluateCopies

SpecCopies == InitCopies /\ [][NextCopies]_vars

\* The nodes that the first n segments of the query yield
NodesAfter(n) == evaluate(JsonPath(SubSeq(path.segments, 1, n)), doc, EmptyCache).r

\* C21: the top-level evaluation and the one for filter paths return the same
\* node list, for the whole query, for each of its segments on the node list
\* that segment receives, and for each selector on each of those nodes.
C21_CopiesAgree ==
    pc = "evaluate_path_segments" =>
        /\ nodes = in_path
        /\ \A n \in 1..Len(path.segments) :
               /\ evaluate_segment(path.segments[n], NodesAfter(n - 1), doc, EmptyCache).r
                      = evaluate_segment_for_expr(path.segments[n], NodesAfter(n - 1), doc,
                                                  EmptyCache).r
               /\ \A selector \in SelectorsOf(<<path.segments[n]>>) :
                      \A i \in 1..Len(NodesAfter(n - 1)) :
                          evaluate_selector(selector, NodesAfter(n - 1)[i], doc, EmptyCache).r
                              = evaluate_selector_in_path(selector, NodesAfter(n - 1)[i], doc,
                                                          EmptyCache).r

\* Both copies have applied $[*][?@] to an array holding an object with a
\* member, and have kept that member.
C21_Witness ==
    /\ pc = "evaluate_path_segments"
    /\ path = JsonPath(<<Child(<<Wildcard>>), Child(<<Filter(CurrentNode)>>)>>)
    /\ doc = Arr(<<Obj(<<KV(KeyA, Num(0))>>)>>)
    /\ nodes = << <<1, 1>> >>
    /\ in_path = << <<1, 1>> >>


-----------------------------------------------------------------------------
(* SpecLex: Lexer::tokenize, on a query string.                             *)

\* Queries of one token per lexeme, some with characters of two bytes
PositionQueries ==
    { <<"$", ".", "a">>,
      <<"$", ".", "é", ".", "a">>,
      <<"$", "..", "é", "..", "a">>,
      <<"$", ".", "é", "[", "0", "]">>,
      <<"$", "[", "'é'", "]", ".", "a">>,
      <<"$", "[", "'é'", ",", "'é'", "]">>,
      <<"$", "[", "?", "@", ".", "é", "==", "'é'", "]">> }

\* Each query without blanks and with a space after one of its lexemes, with
\* the byte offset of the first character of each lexeme
PositionCases ==
    UNION { { [source |-> Render(q, gap, <<" ">>),
               offsets |-> [k \in 1..Len(q) |->
                                ByteLen(Render(SubSeq(q, 1, k - 1), gap, <<" ">>))]] :
              gap \in 0..(Len(q) - 1) } : q \in PositionQueries }

PositionInputs == { c.source : c \in PositionCases }

\* Characters that are neither white space nor the start of a token
NoTokenStart == {"#", "~", "%"}

\* Each valid query with one of those characters after one of its lexemes,
\* beside the query without it
BlankCases ==
    UNION { { [source |-> Render(q, gap, <<ch>>), tight |-> Tight(q), ch |-> ch] :
              gap \in 1..(Len(q) - 1), ch \in Blanks \cup OtherWhiteSpace \cup NoTokenStart } :
            q \in ValidQueries \cup { <<"$", "[", "0", "]">> } }

BlankInputs == { c.source : c \in BlankCases } \cup { c.tight : c \in BlankCases }

\* Every string of up to MaxNumberLen of the characters a number is made of
MaxNumberLen == 4
NumberChars == {"-", "0", "1", "5", ".", "e", "+"}
NumberInputs == SeqsUpTo(NumberChars, MaxNumberLen) \ {<<>>}

LexInputs == PositionInputs \cup BlankInputs \cup NumberInputs

InitLex ==
    /\ in_path = <<>>
    /\ work = <<>>
    /\ source \in LexInputs
    /\ outcome = [ok |-> TRUE]
    /\ doc = Null /\ path = JsonPath(<<>>) /\ nodes = <<>> /\ cache = EmptyCache
    /\ NoOperands
    /\ pc = "idle"

\* Lexer::new(source).tokenize()
Tokenize ==
    /\ pc = "idle"
    /\ outcome' = tokenize(source)
    /\ pc' = "tokenize"
    /\ UNCHANGED <<doc, path, nodes, cache, source, lhs, rhs, verdicts, work, in_path>>

NextLex == Tokenize

SpecLex == InitLex /\ [][NextLex]_vars

Tokenized == pc = "tokenize"

\* C22: the position of each token is the byte offset of its first character
\* in the query string, also behind characters of more than one byte.
C22_PositionsAreByteOffsets ==
    Tokenized =>
        \A c \in PositionCases :
            source = c.source =>
                /\ outcome.ok
                /\ Len(outcome.tokens) = Len(c.offsets)
                /\ \A k \in 1..Len(c.offsets) : outcome.tokens[k].position = c.offsets[k]

\* $.é.a has been tokenized: the second dot starts at byte 4 and is recorded
\* at position 3, the number of characters before it.
C22_Witness ==
    /\ Tokenized
    /\ source = <<"$", ".", EAcute, ".", "a">>
    /\ outcome.ok
    /\ ByteLen(SubSeq(source, 1, 3)) = 4
    /\ outcome.tokens[4].kind = "Dot"
    /\ outcome.tokens[4].position = 3


\* The tokens without their positions
Unplaced(tokens) == [k \in 1..Len(tokens) |-> [tokens[k] EXCEPT !.position = 0]]

\* The character between two lexemes has been skipped: the tokens are those
\* of the query without it.
Skipped(c) ==
    /\ outcome.ok
    /\ tokenize(c.tight).ok
    /\ Unplaced(outcome.tokens) = Unplaced(tokenize(c.tight).tokens)

\* C23: between tokens the lexer skips space, tab, carriage return and line
\* feed, and no other character: not the form feed, the vertical tab or
\* other white space, and no character that starts no token.
C23_OnlyBlanksSkipped ==
    Tokenized =>
        \A c \in BlankCases :
            source = c.source => (Skipped(c) <=> c.ch \in Blanks)

\* $[ and 0] with a form feed between them have been tokenized as $[0].
C23_Witness ==
    /\ Tokenized
    /\ source = <<"$", "[", "\f", "0", "]">>
    /\ outcome.ok
    /\ Unplaced(outcome.tokens) = Unplaced(tokenize(<<"$", "[", "0", "]">>).tokens)


\* The end of the run of digits of s that starts behind position i
RECURSIVE DigitRun(_, _)
DigitRun(s, i) == IF i < Len(s) /\ s[i + 1] \in AsciiDigit THEN DigitRun(s, i + 1) ELSE i

\* int = "0" | [1-9] digit*, from behind position i: the position of its end,
\* or -1
IntEnd(s, i) ==
    IF i >= Len(s) \/ s[i + 1] \notin AsciiDigit THEN -1
    ELSE IF s[i + 1] = "0" THEN i + 1
    ELSE DigitRun(s, i)

\* ('.' digit+)?, from behind position i
FractionEnd(s, i) ==
    IF i < Len(s) /\ s[i + 1] = "."
    THEN IF DigitRun(s, i + 1) > i + 1 THEN DigitRun(s, i + 1) ELSE -1
    ELSE i

\* ([eE] [+-]? digit+)?, from behind position i
ExponentEnd(s, i) ==
    IF i < Len(s) /\ s[i + 1] \in {"e", "E"}
    THEN LET j == IF i + 1 < Len(s) /\ s[i + 2] \in {"+", "-"} THEN i + 2 ELSE i + 1
         IN  IF DigitRun(s, j) > j THEN DigitRun(s, j) ELSE -1
    ELSE i

\* s matches -? int ('.' digit+)? ([eE] [+-]? digit+)?
MatchesNumber(s) ==
    LET a == IF s # <<>> /\ s[1] = "-" THEN 1 ELSE 0
        b == IntEnd(s, a)
        c == IF b < 0 THEN -1 ELSE FractionEnd(s, b)
        d == IF c < 0 THEN -1 ELSE ExponentEnd(s, c)
    IN  d = Len(s)

\* The whole string has become one Number token.
OneNumber == outcome.ok /\ Len(outcome.tokens) = 1 /\ outcome.tokens[1].kind = "Number"

\* C24: a string becomes a Number token only if it matches the grammar of
\* numbers and is not -0; -, -.5, -e1, 01, -01, 1e and 1e+ are lex errors,
\* and -0.5 and -0e1 are numbers.
C24_NumbersMatchGrammar ==
    (Tokenized /\ source \in NumberInputs) =>
        /\ OneNumber => (MatchesNumber(source) /\ source # <<"-", "0">>)
        /\ source \in { <<"-">>, <<"-", ".", "5">>, <<"-", "e", "1">>, <<"0", "1">>,
                        <<"-", "0", "1">>, <<"1", "e">>, <<"1", "e", "+">>, <<"-", "0">> }
               => ~outcome.ok
        /\ source \in { <<"-", "0", ".", "5">>, <<"-", "0", "e", "1">> } => OneNumber

\* -.5 has become a Number token.
C24_Witness ==
    /\ Tokenized
    /\ source = <<"-", ".", "5">>
    /\ OneNumber
    /\ ~MatchesNumber(source)


-----------------------------------------------------------------------------
(* SpecCache: get_or_compile_regex called again and again on one thread,    *)
(* with patterns that compile and patterns that do not.                     *)

\* a, a., \.a, [^\r\n], the same as fn_match wraps them, and (, a(, [ and
\* ^(?:()$, which do not compile
CompilingBodies == { <<"a">>, <<"a", ".">>, <<BS, ".", "a">>, NotCrLfClass }
CachePatterns ==
    CompilingBodies \cup { AnchorOpen \o p \o AnchorClose : p \in CompilingBodies }
        \cup { <<"(">>, <<"a", "(">>, <<"[">>, AnchorOpen \o <<"(">> \o AnchorClose }

InitCache ==
    /\ in_path = <<>>
    /\ work = <<>>
    /\ cache = EmptyCache
    /\ source = <<>>
    /\ outcome = [ok |-> TRUE]
    /\ doc = Null /\ path = JsonPath(<<>>) /\ nodes = <<>>
    /\ NoOperands
    /\ pc = "idle"

\* get_or_compile_regex(pattern)
GetOrCompile(pattern) ==
    /\ source' = pattern
    /\ outcome' = get_or_compile_regex(pattern, cache).r
    /\ cache' = get_or_compile_regex(pattern, cache).c
    /\ pc' = "get_or_compile_regex"
    /\ UNCHANGED <<doc, path, nodes, lhs, rhs, verdicts, work, in_path>>

NextCache == \E pattern \in CachePatterns : GetOrCompile(pattern)

SpecCache == InitCache /\ [][NextCache]_vars

\* Every entry holds the regex compiled from its key, and no key has two
\* entries.
CacheSound ==
    \A e \in cache :
        /\ RegexNew(e.key).ok
        /\ e.re = RegexNew(e.key).re
        /\ \A f \in cache : f.key = e.key => f = e

\* The last call returned None for a pattern that does not compile, and the
\* regex a fresh compilation yields for one that does.
ReturnSound ==
    pc = "get_or_compile_regex" =>
        IF RegexNew(source).ok
        THEN outcome.some /\ outcome.re = RegexNew(source).re /\ CacheHas(cache, source)
        ELSE ~outcome.some /\ ~CacheHas(cache, source)

\* C25: after any sequence of calls every cache entry maps its key to the
\* regex compiled from that key; a pattern that does not compile is never
\* cached, leaves the cache unchanged and yields None at every retry; no
\* entry is removed or replaced; a hit returns the regex a fresh compilation
\* of the key would.
C25_CacheInvariant ==
    /\ [](CacheSound /\ ReturnSound)
    /\ [][/\ cache \subseteq cache'
          /\ ~RegexNew(source').ok => cache' = cache]_vars

\* A pattern that does not compile has been tried with three entries in the
\* cache, and they are still there.
C25_Witness ==
    /\ pc = "get_or_compile_regex"
    /\ source = <<"a", "(">>
    /\ ~outcome.some
    /\ Cardinality(cache) = 3


-----------------------------------------------------------------------------
(* SpecTransform: transform_pattern_for_iregexp applied to every short      *)
(* pattern over dot, backslash, the brackets and a letter.                  *)

MaxPatternLen == 4
TransformChars == {".", BS, "[", "]", "a"}
\* .\.[.] and [\].]. , longer than the bound
LongPatterns == { <<".", BS, ".", "[", ".", "]">>, <<"[", BS, "]", ".", "]", ".">> }
TransformInputs == SeqsUpTo(TransformChars, MaxPatternLen) \cup LongPatterns

InitTransform ==
    /\ in_path = <<>>
    /\ work = <<>>
    /\ cache = EmptyCache
    /\ source \in TransformInputs
    /\ outcome = <<>>
    /\ doc = Null /\ path = JsonPath(<<>>) /\ nodes = <<>>
    /\ NoOperands
    /\ pc = "idle"

Transform ==
    /\ pc = "idle"
    /\ outcome' = transform_pattern_for_iregexp(source)
    /\ pc' = "transform_pattern_for_iregexp"
    /\ UNCHANGED <<doc, path, nodes, cache, source, lhs, rhs, verdicts, work, in_path>>

NextTransform == Transform

SpecTransform == InitTransform /\ [][NextTransform]_vars

\* The character at i follows an escaping backslash: the backslashes just
\* before it are odd in number.
RECURSIVE Escaped(_, _)
Escaped(pattern, i) == i > 1 /\ pattern[i - 1] = BS /\ ~Escaped(pattern, i - 1)

\* Some unescaped [ before i has no unescaped ] between it and i.
InClass(pattern, i) ==
    \E j \in 1..(i - 1) :
        /\ pattern[j] = "[" /\ ~Escaped(pattern, j)
        /\ \A k \in (j + 1)..(i - 1) : ~(pattern[k] = "]" /\ ~Escaped(pattern, k))

FreeDot(pattern, i) ==
    pattern[i] = "." /\ ~Escaped(pattern, i) /\ ~InClass(pattern, i)

RECURSIVE Rewritten(_, _)
Rewritten(pattern, i) ==
    IF i > Len(pattern) THEN <<>>
    ELSE (IF FreeDot(pattern, i) THEN NotCrLfClass ELSE <<pattern[i]>>)
             \o Rewritten(pattern, i + 1)

\* C26: transform_pattern_for_iregexp(P) is P with every dot that neither
\* follows an escaping backslash nor stands in a character class replaced by
\* [^\r\n] and every other character copied in order; transforming the
\* result again changes nothing, and a pattern without such a dot is returned
\* as it is.
C26_TransformRewritesFreeDots ==
    pc = "transform_pattern_for_iregexp" =>
        /\ outcome = Rewritten(source, 1)
        /\ transform_pattern_for_iregexp(outcome) = outcome
        /\ (\A i \in 1..Len(source) : ~FreeDot(source, i)) => outcome = source

\* .\.[.] becomes [^\r\n]\.[.]
C26_Witness ==
    /\ pc = "transform_pattern_for_iregexp"
    /\ source = <<".", BS, ".", "[", ".", "]">>
    /\ outcome = NotCrLfClass \o <<BS, ".", "[", ".", "]">>


-----------------------------------------------------------------------------
(* SpecParse: the precedence of the operators of a filter expression.       *)

\* The expression of the filter that is the only selector of the query
FilterExpr(jsonpath) == jsonpath.segments[1].selectors[1].expr

ParsedAs(c) ==
    source = Tight(FilterOf(c.lex)) => outcome.ok /\ FilterExpr(outcome.val) = c.ast

\* C27: || binds weaker than &&, && weaker than a comparison, a comparison
\* weaker than ! and ! weaker than an atom, equal operators bind from the
\* left; the operands of a comparison are unary expressions, so that a second
\* comparison operator and a negated operand are rejected; a parenthesised
\* expression is an atom with the expression of what it encloses.
C27_Precedence ==
    pc = "parse" =>
        /\ source \in PrecedenceInputs \cup OperandInputs
               => \A c \in PrecedenceCases \cup ParenthesisedOperands : ParsedAs(c)
        /\ source \in OperandInputs
               /\ (\A c \in ParenthesisedOperands : source # Tight(FilterOf(c.lex)))
               => ~outcome.ok

\* @.a||!@.b&&@.c==1 is the || of @.a and the && of !@.b and @.c==1
C27_Witness ==
    /\ pc = "parse"
    /\ source = Tight(FilterOf(<<"@", ".", "a", "||", "!", "@", ".", "b", "&&",
                                "@", ".", "c", "==", "1">>))
    /\ outcome.ok
    /\ FilterExpr(outcome.val)
           = Logical(FieldOf("a"), "Or",
                     Logical(Not(FieldOf("b")), "And",
                             Comparison(FieldOf("c"), "Eq", Literal(Num(1)))))


-----------------------------------------------------------------------------
(* SpecValue: query on filters that compare value(q) with a literal, for    *)
(* arguments q that select no node, one node or several.                    *)

\* What @.*, @.a and @[0] select from a value, in order
ValuesOf(v) ==
    CASE v.t = "arr" -> v.a
      [] v.t = "obj" -> [i \in 1..Len(v.o) |-> v.o[i].v]
      [] OTHER -> <<>>
ValueArguments ==
    { [lex |-> <<"@", ".", "*">>, kind |-> "wildcard"],
      [lex |-> <<"@", ".", "a">>, kind |-> "name"],
      [lex |-> <<"@", "[", "0", "]">>, kind |-> "index"] }
SelectedBy(kind, v) ==
    CASE kind = "wildcard" -> ValuesOf(v)
      [] kind = "name" -> IF HasKey(v, KeyA) THEN <<Member(v, KeyA)>> ELSE <<>>
      [] kind = "index" -> IF v.t = "arr" /\ v.a # <<>> THEN <<v.a[1]>> ELSE <<>>

ValueLiterals ==
    { [lex |-> "1", lit |-> Num(1)], [lex |-> "0", lit |-> Num(0)],
      [lex |-> "null", lit |-> Null] }
ValueOps == { [lex |-> "==", eq |-> TRUE], [lex |-> "!=", eq |-> FALSE] }

\* $[?value(q) o v] and $[?v o value(q)]
ValueCases ==
    UNION { { [source |-> Tight(FilterOf(<<"value", "(">> \o q.lex \o <<")", o.lex, v.lex>>)),
               kind |-> q.kind, eq |-> o.eq, lit |-> v.lit, call |-> "left"],
              [source |-> Tight(FilterOf(<<v.lex, o.lex, "value", "(">> \o q.lex \o <<")">>)),
               kind |-> q.kind, eq |-> o.eq, lit |-> v.lit, call |-> "right"] } :
            <<q, o, v>> \in ValueArguments \X ValueOps \X ValueLiterals }
ValueInputs == { c.source : c \in ValueCases }

InitValue ==
    /\ in_path = <<>>
    /\ work = <<>>
    /\ source \in ValueInputs
    /\ doc \in FlatDocs
    /\ outcome = [ok |-> TRUE]
    /\ path = JsonPath(<<>>) /\ nodes = <<>> /\ cache = EmptyCache
    /\ NoOperands
    /\ pc = "idle"

SpecValue == InitValue /\ [][NextQuery]_vars

\* value(q) on v compares equal to the literal: q selects one node, and its
\* value is the literal
OneEqual(c, v) ==
    Len(SelectedBy(c.kind, v)) = 1 /\ SelectedBy(c.kind, v)[1] = c.lit
Passes(c, v) == IF c.eq THEN OneEqual(c, v) ELSE ~OneEqual(c, v)

\* The call of value in the filter of the parsed query
ValueCall(c) ==
    IF c.call = "left" THEN FilterExpr(parse(c.source).val).left
    ELSE FilterExpr(parse(c.source).val).right

\* C28: value(q) is the value of the node q selects when q selects exactly
\* one node, and Nothing when q selects none or several; queries that select
\* several, like @.*, are accepted as its argument; so value(q) == v is false
\* and value(q) != v is true for every v when q selects none or several.
C28_ValueOfOneNode ==
    pc = "query" =>
        \A c \in ValueCases : source = c.source =>
            /\ outcome.ok
            /\ outcome.val = SelectSeq(ValuesOf(doc), LAMBDA v : Passes(c, v))
            /\ \A i \in 1..Len(ValuesOf(doc)) :
                   fn_value(ValueCall(c).args, <<i>>, doc, EmptyCache).r
                       = IF Len(SelectedBy(c.kind, ValuesOf(doc)[i])) = 1
                         THEN ValueResult(SelectedBy(c.kind, ValuesOf(doc)[i])[1])
                         ELSE Nothing

\* Of an element with two members and an element with none, value(@.*) != 1
\* keeps both.
C28_Witness ==
    /\ pc = "query"
    /\ source = Tight(FilterOf(<<"value", "(", "@", ".", "*", ")", "!=", "1">>))
    /\ doc = Arr(<<Obj(<<KV(KeyB, Num(2)), KV(KeyA, Num(1))>>), Obj(<<>>)>>)
    /\ outcome.ok
    /\ outcome.val = doc.a


-----------------------------------------------------------------------------
(* SpecParse: what Parser::parse looks at first.                            *)

\* C29: a query that starts with whitespace fails with the leading-whitespace
\* error at position 0, also when it ends with whitespace; one that only ends
\* with whitespace fails with the trailing-whitespace error; both whatever
\* stands between. Any other query is tokenized as a whole first: an error of
\* the lexer is returned with its message and position, also when a token
\* before it is one the grammar does not allow.
C29_ParseOrder ==
    pc = "parse" =>
        \A c \in OrderCases : source = Padded(c) =>
            IF c.lead # <<>>
            THEN outcome = ParseError("leading whitespace is not allowed", 0)
            ELSE IF c.trail # <<>>
            THEN /\ ~outcome.ok
                 /\ outcome.message = "trailing whitespace is not allowed"
                 /\ outcome.position = ByteLen(source) - 1
            ELSE /\ \A r \in LexerRejected : c.body = r.body =>
                        /\ outcome = ParseError(r.message, r.position)
                        /\ outcome = tokenize(source)
                 /\ c.body \in LexerAccepted =>
                        /\ tokenize(source).ok
                        /\ outcome = parse_jsonpath(tokenize(source).tokens)

\* $$# fails with the error of the lexer at #, not with that of the second $.
C29_Witness ==
    /\ pc = "parse"
    /\ source = <<"$", "$", "#">>
    /\ outcome = ParseError("unexpected character", 2)
    /\ ~parse_jsonpath(tokenize(<<"$", "$">>).tokens).ok
    /\ parse_jsonpath(tokenize(<<"$", "$">>).tokens).position = 1


-----------------------------------------------------------------------------
(* SpecSlice64: evaluate_slice with start, end and step of every size an    *)
(* i64 holds, as a JsonPath built with JsonPath::new may carry them, in a   *)
(* build with overflow checks and in a build without.                       *)

MaxNear == 4
\* 2^53 - 1, the largest number the parser lets into a slice
RFC9535_MAX_I64 == [a |-> 2 ^ 9 - 1, b |-> LimbBase - 1, c |-> LimbBase - 1]
RFC9535_MIN_I64 == [a |-> -(2 ^ 9), b |-> 0, c |-> 1]
SliceNumbers ==
    { I64(n) : n \in (-MaxNear)..MaxNear }
        \cup { RFC9535_MIN_I64, RFC9535_MAX_I64, I64_MIN, wrapping_add(I64_MIN, I64(1)),
               wrapping_add(I64_MAX, I64(-1)), I64_MAX }

\* None::<i64> and the Option<i64> over a set of numbers
None64 == [some |-> FALSE, val |-> I64(0)]
Optional64(S) == { Some(x) : x \in S } \cup {None64}

InitSlice64 ==
    /\ in_path = <<>>
    /\ work = <<>>
    /\ doc \in { Counting(n) : n \in 0..MaxSliceLen } \cup { Obj(<<>>) }
    /\ path \in { JsonPath(<<Child(<<Slice(start, end, step)>>)>>) :
                      <<start, end, step>> \in
                          Optional64(SliceNumbers) \X Optional64(SliceNumbers)
                              \X Optional64(SliceNumbers) }
    /\ nodes = <<>>
    /\ cache = EmptyCache
    /\ pc = "idle"
    /\ NoInput /\ NoOperands

\* The Selector::Slice arm of evaluate_selector on the root
slice_of_root(overflow_checks) ==
    IF doc.t = "arr"
    THEN evaluate_slice_i64(overflow_checks, <<>>, Len(doc.a), SliceOf(path).start,
                            SliceOf(path).end, SliceOf(path).step)
    ELSE <<>>

EvaluateSliceChecked ==
    /\ pc = "idle"
    /\ nodes' = slice_of_root(TRUE)
    /\ pc' = "overflow checks"
    /\ UNCHANGED <<doc, path, cache, source, outcome, lhs, rhs, verdicts, work, in_path>>

EvaluateSliceWrapping ==
    /\ pc = "idle"
    /\ nodes' = slice_of_root(FALSE)
    /\ pc' = "wrapping"
    /\ UNCHANGED <<doc, path, cache, source, outcome, lhs, rhs, verdicts, work, in_path>>

NextSlice64 == EvaluateSliceChecked \/ EvaluateSliceWrapping

SpecSlice64 == InitSlice64 /\ [][NextSlice64]_vars

StepOf(jsonpath) ==
    IF SliceOf(jsonpath).step.some THEN SliceOf(jsonpath).step.val ELSE I64(1)

\* The slice has returned, and the positions it selected are positions of
\* the array
ReturnedInRange ==
    /\ PanicNode \notin Range(nodes)
    /\ \A k \in 1..Len(nodes) : Len(nodes[k]) = 1 /\ nodes[k][1] \in 1..Len(doc.a)

\* C30: for every array and every start, end and step other than 0 the loop
\* of evaluate_slice ends and each index it selects is one of the array, each
\* larger than the one before for a step above 0 and smaller for a step below
\* 0; for step 0 and for a value that is no array nothing is selected.
C30_SliceIndicesInRangeAndMonotone ==
    pc # "idle" =>
        IF doc.t # "arr" \/ StepOf(path) = I64(0) THEN nodes = <<>>
        ELSE /\ ReturnedInRange
             /\ \A k \in 1..(Len(nodes) - 1) :
                    IF lt_i64(I64(0), StepOf(path)) THEN nodes[k][1] < nodes[k + 1][1]
                    ELSE nodes[k][1] > nodes[k + 1][1]

\* start, end and step are numbers the parser lets into a slice
InParsedRange(x) ==
    ~x.some \/ (~lt_i64(x.val, RFC9535_MIN_I64) /\ ~lt_i64(RFC9535_MAX_I64, x.val))
ParsedSlice ==
    /\ InParsedRange(SliceOf(path).start)
    /\ InParsedRange(SliceOf(path).end)
    /\ InParsedRange(SliceOf(path).step)

\* What holds of evaluate_slice: the same, for the slices of parsed queries
\* and for every step below 0.
SliceOfParsedInRangeAndMonotone ==
    ParsedSlice \/ lt_i64(StepOf(path), I64(0)) => C30_SliceIndicesInRangeAndMonotone

\* Without overflow checks [2::i64::MAX] selects the index 2 and then the
\* index 0 of an array of three.
C30_Witness ==
    /\ pc = "wrapping"
    /\ doc = Counting(3)
    /\ SliceOf(path) = Slice(Some(I64(2)), None64, Some(I64_MAX))
    /\ nodes = << <<3>>, <<1>> >>

====
